---------------------------- MODULE Spec2Model ----------------------------
(***************************************************************************)
(* Bar data layer of the chart server (src/src/charts/server/data.py) and  *)
(* the request handlers that call it (src/src/charts/server/handlers.py).  *)
(*                                                                         *)
(* Time.  A timestamp is a whole number of seconds of Eastern wall-clock   *)
(* time counted from 2024-01-18 00:00:00 (a Thursday); a date string       *)
(* "YYYY-MM-DD" is the number of days from 2024-01-18.  ISO date strings   *)
(* compare as strings exactly as their day numbers compare, which is what  *)
(* the file-name test of load_bars_from_cache relies on.                   *)
(*                                                                         *)
(* Prices are whole numbers of 1/100000 dollar, so that rounding to four   *)
(* decimals is a computation on them.                                      *)
(***************************************************************************)
EXTENDS Integers, Sequences, FiniteSets, TLC

VARIABLES
    cache,          \* the symbol's directory under cache_dir: [exists, files]
    cfg,            \* what the caller passes: [cache_dir, manager, has_raw]
    op,             \* the function called in this behaviour, "idle" before
    req,            \* its arguments: [start, end, timeframe]
    out,            \* what the call did and returned
    trades,         \* server.trades: the loaded trade records, in order
    bars_by_date,   \* server.bars_by_date: [configured, entries]; not
                    \* configured is None, entries maps a date to a bar list
    threads,        \* the worker threads of ChartHTTPServer, one per request
    state_dir,      \* the UI-state directory: [exists, files], files maps a
                    \* file name [stem, suffix] to the text of the file
    write_lock      \* state._write_lock: the thread holding it, 0 when free

vars == <<cache, cfg, op, req, out, trades, bars_by_date, threads,
          state_dir, write_lock>>

---------------------------------------------------------------------------
(* Bounds of the model                                                     *)

MaxDay == 2         \* dates are 2024-01-18 (Thu) .. 2024-01-18 + MaxDay
MaxRows == 2        \* rows of a cache directory / bars of a provider answer
MaxFiles == 2       \* segment files in a symbol directory
NThreads == 2       \* requests the server handles at the same time
MaxBars == 3        \* rows of a frame passed to aggregate_bars

Days == 0..MaxDay

---------------------------------------------------------------------------
(* Clock arithmetic                                                        *)

HOUR == 60 * 60
MINUTE == HOUR \div 60
DAY == 24 * HOUR

DateOf(ts) == ts \div DAY                   \* Timestamp.date()
hour(ts) == (ts % DAY) \div HOUR            \* .dt.hour
minute(ts) == ((ts % DAY) % HOUR) \div MINUTE   \* .dt.minute
At(d, h, m, s) == d * DAY + h * HOUR + m * MINUTE + s

\* America/New_York in January is UTC-5 (tests/test_data.py:153).
ET_OFFSET == 5 * HOUR

\* date.weekday(): Monday is 0; day 0 of the model is a Thursday.
weekday(d) == (d + 3) % 7

\* _is_trading_day, the weekday-only fallback.  The NYSE calendar agrees
\* with it on every date of the model (no holiday from 2024-01-18 on
\* within the bounds).
is_trading_day(d) == weekday(d) < 5

---------------------------------------------------------------------------
(* Sequences of rows (a DataFrame is the sequence of its rows)             *)

\* The elements of a sequence.
Range(s) == {s[i] : i \in 1..Len(s)}

RECURSIVE SelectIdx(_, _)
\* The rows of s at the positions in idx, in their order in s.
SelectIdx(s, idx) ==
    IF s = << >> THEN << >>
    ELSE LET n == Len(s)
             front == SelectIdx(SubSeq(s, 1, n - 1), idx)
         IN  IF n \in idx THEN Append(front, s[n]) ELSE front

Mask(s, P(_)) == SelectIdx(s, {i \in 1..Len(s) : P(s[i])})

RECURSIVE Concat(_)
\* pd.concat(frames, ignore_index=True)
Concat(frames) ==
    IF frames = << >> THEN << >> ELSE Head(frames) \o Concat(Tail(frames))

RECURSIVE InsertRow(_, _)
InsertRow(sorted, r) ==
    IF sorted = << >> THEN <<r>>
    ELSE LET n == Len(sorted)
         IN  IF sorted[n].timestamp <= r.timestamp
             THEN Append(sorted, r)
             ELSE Append(InsertRow(SubSeq(sorted, 1, n - 1), r), sorted[n])

RECURSIVE sort_values(_)
\* df.sort_values("timestamp"): ascending; rows of equal timestamp keep their
\* order (numpy sorts the short arrays of the model by insertion).
sort_values(df) ==
    IF df = << >> THEN << >>
    ELSE InsertRow(sort_values(SubSeq(df, 1, Len(df) - 1)), df[Len(df)])

keep_all(df) == df

\* df.drop_duplicates(subset=["timestamp"]): the first row of each timestamp.
drop_duplicates(df) ==
    SelectIdx(df, {i \in 1..Len(df) :
                     \A j \in 1..(i - 1) : df[j].timestamp # df[i].timestamp})

\* _filter_trading_days
filter_trading_days(df) ==
    IF df = << >> THEN df
    ELSE LET Keep(r) == is_trading_day(DateOf(r.timestamp)) IN Mask(df, Keep)

---------------------------------------------------------------------------
(* Cache reader: load_bars_from_cache                                      *)
(*                                                                         *)
(* A segment file is [parts, tz, rows]: parts is pf.stem.split("_"), that  *)
(* is <<"1min", file_start, file_end, ...>>; tz says whether the file's    *)
(* timestamp column is tz-aware (stored in UTC) or tz-naive; rows are its  *)
(* rows in file order.                                                     *)

\* Order of two file names as path strings: part by part, a name that is a
\* prefix of another first ("." sorts before "_").  parts[1] is "1min" for
\* every file the glob matches.
NameLess(p, q) ==
    \/ \E i \in 2..Len(p) :
          /\ i <= Len(q)
          /\ \A j \in 2..(i - 1) : p[j] = q[j]
          /\ p[i] < q[i]
    \/ /\ Len(p) < Len(q)
       /\ \A j \in 2..Len(p) : p[j] = q[j]

RECURSIVE sorted_glob(_)
\* sorted(sym_dir.glob("1min_*.parquet"))
sorted_glob(files) ==
    IF files = {} THEN << >>
    ELSE LET f == CHOOSE g \in files :
                    \A h \in files \ {g} : NameLess(g.parts, h.parts)
         IN  <<f>> \o sorted_glob(files \ {f})

qualifies_contained(parts, start, end) ==
    Len(parts) >= 3 /\ parts[2] >= start /\ parts[3] <= end

qualifies_any(parts, start, end) == Len(parts) >= 3

\* lines 62-66: the name has the three parts and its interval overlaps
qualifies(parts, start, end) ==
    IF Len(parts) < 3 THEN FALSE
    ELSE LET file_start == parts[2]
             file_end == parts[3]
         IN  file_end >= start /\ file_start <= end

\* The files read, in listing order (the loop of lines 60-67).
files_read(files, start, end) ==
    LET Q(f) == qualifies(f.parts, start, end)
    IN  Mask(sorted_glob(files), Q)

\* zoneinfo is part of every supported Python, so _ET is set (lines 17-21).
ET_available == TRUE

\* lines 73-80: a tz-aware frame is converted to Eastern and made tz-naive
normalize_tz(f) ==
    IF f.tz # "naive"
    THEN IF ET_available
         THEN [i \in 1..Len(f.rows) |->
                 [f.rows[i] EXCEPT !.timestamp = @ - ET_OFFSET]]
         ELSE f.rows
    ELSE f.rows

\* lines 84-86: [start 00:00:00, end 23:59:59]
trim(df, start, end) ==
    LET start_dt == start * DAY
        end_dt == end * DAY + DAY - 1
        In(r) == r.timestamp >= start_dt /\ r.timestamp <= end_dt
    IN  Mask(df, In)

SESSION_OPEN_HOUR == 4
SESSION_CLOSE_HOUR == 20

session_end_exclusive(df) ==
    LET In(r) == /\ hour(r.timestamp) >= SESSION_OPEN_HOUR
                 /\ hour(r.timestamp) * 60 + minute(r.timestamp)
                      < SESSION_CLOSE_HOUR * 60
    IN  Mask(df, In)

\* lines 88-92: "Extended hours: 4 AM - 20:00"
session_filter(df) ==
    LET In(r) == /\ hour(r.timestamp) >= SESSION_OPEN_HOUR
                 /\ hour(r.timestamp) * 60 + minute(r.timestamp)
                      <= SESSION_CLOSE_HOUR * 60
    IN  Mask(df, In)

\* load_bars_from_cache(symbol, start, end, cache_dir); dir is the state of
\* Path(cache_dir) / symbol.upper().  An empty DataFrame is << >>.
load_bars_from_cache(dir, start, end) ==
    IF ~dir.exists THEN << >>
    ELSE LET read == files_read(dir.files, start, end)
         IN  IF read = << >> THEN << >>
             ELSE LET frames == [i \in 1..Len(read) |-> normalize_tz(read[i])]
                      df0 == Concat(frames)
                      df1 == drop_duplicates(sort_values(df0))
                      df2 == trim(df1, start, end)
                      df3 == session_filter(df2)
                  IN  filter_trading_days(df3)

---------------------------------------------------------------------------
(* Provider adapter: load_bars_from_manager                                *)
(*                                                                         *)
(* What a get_bars call does is an answer [kind, tz, bars]:                *)
(*   "raise"      it raises (a timeout, a validation error, any Exception) *)
(*   "none"       it returns None                                          *)
(*   "bars"       it returns the list bars (maybe empty) of Bar objects    *)
(*                whose timestamps carry tzinfo UTC (tz = "UTC") or none   *)
(*   "malformed"  it returns a non-empty list of objects that are no Bars  *)
(*                (they have no .timestamp attribute)                      *)

Answer(kind, z, bars) == [kind |-> kind, tz |-> z, bars |-> bars]
NoAnswer == Answer("unasked", "naive", << >>)

Call(target, start, end) == [target |-> target, start |-> start, end |-> end]

\* lines 131-148: one row per bar, tz-aware timestamps made tz-naive Eastern
rows_of(ans) ==
    [i \in 1..Len(ans.bars) |->
        [ans.bars[i] EXCEPT !.timestamp =
            IF ans.tz # "naive"
            THEN IF ET_available THEN @ - ET_OFFSET ELSE @
            ELSE @]]

load_no_fallback(start, end, has_raw, mgr, raw) ==
    IF mgr.kind = "bars" /\ mgr.bars # << >>
    THEN [raised |-> FALSE, df |-> rows_of(mgr),
          calls |-> <<Call("manager", start, end)>>]
    ELSE [raised |-> mgr.kind = "malformed", df |-> << >>,
          calls |-> <<Call("manager", start, end)>>]

\* A loader that also goes to the raw provider when the manager answered
\* with nothing.
load_fallback_on_empty(start, end, has_raw, mgr, raw) ==
    LET first == <<Call("manager", start, end)>>
        both == Append(first, Call("raw", start, end))
        Kept(ans, calls) ==
            IF ans.kind = "bars" /\ ans.bars # << >>
            THEN [raised |-> FALSE, df |-> rows_of(ans), calls |-> calls]
            ELSE [raised |-> ans.kind = "malformed", df |-> << >>,
                  calls |-> calls]
    IN  IF mgr.kind = "raise" \/ mgr.kind = "none" \/
           (mgr.kind = "bars" /\ mgr.bars = << >>)
        THEN IF has_raw THEN Kept(raw, both) ELSE Kept(NoAnswer, first)
        ELSE Kept(mgr, first)

\* load_bars_from_manager(symbol, start, end, manager).  mgr is what
\* manager.get_bars does when called, raw what manager.providers[0].get_bars
\* does; has_raw is hasattr(manager, "providers") and manager.providers.
\* The value is [raised, df, calls]: whether the call raised, the frame it
\* returned, the get_bars calls it made in order.
load_bars_from_manager(start, end, has_raw, mgr, raw) ==
    LET first == <<Call("manager", start, end)>>
        both == Append(first, Call("raw", start, end))
        Empty(calls) == [raised |-> FALSE, df |-> << >>, calls |-> calls]
        \* lines 128-148, bars being the answer that was kept
        Rows(ans, calls) ==
            IF ans.kind = "none" \/ (ans.kind = "bars" /\ ans.bars = << >>)
            THEN Empty(calls)
            ELSE IF ans.kind = "malformed"
            THEN [raised |-> TRUE, df |-> << >>, calls |-> calls]
            ELSE [raised |-> FALSE, df |-> rows_of(ans), calls |-> calls]
    IN  IF mgr.kind # "raise" THEN Rows(mgr, first)
        ELSE IF has_raw
        THEN IF raw.kind = "raise" THEN Empty(both) ELSE Rows(raw, both)
        ELSE Empty(first)            \* bars is still None

---------------------------------------------------------------------------
(* Resampler and wire encoder: aggregate_bars, bars_to_json                *)

Timeframes == {"1min", "5min"}

\* freq_map (lines 153-165) and the pattern for custom timeframes (lines
\* 168-175), as the seconds of one bucket; "7min" is a custom timeframe.
FreqSeconds(timeframe) ==
    CASE timeframe = "1min" -> MINUTE
      [] timeframe = "2min" -> 2 * MINUTE
      [] timeframe = "5min" -> 5 * MINUTE
      [] timeframe = "7min" -> 7 * MINUTE
      [] timeframe = "1hour" -> HOUR
      [] timeframe = "1day" -> DAY

passthrough_never(freq) == FALSE

\* line 176: freq == "1min"
is_passthrough(freq) == freq = MINUTE

SetMin(S) == CHOOSE x \in S : \A y \in S : x <= y
SetMax(S) == CHOOSE x \in S : \A y \in S : x >= y

sum_of_last(s) == IF s = << >> THEN 0 ELSE s[Len(s)]

RECURSIVE Sum(_)
Sum(s) == IF s = << >> THEN 0 ELSE Head(s) + Sum(Tail(s))

RECURSIVE Ascending(_)
\* The numbers of a set in ascending order.
Ascending(S) ==
    IF S = {} THEN << >> ELSE <<SetMin(S)>> \o Ascending(S \ {SetMin(S)})

bucket_right_edge(ts, origin, w) == origin + ((ts - origin) \div w) * w + w

\* The bucket of width w a timestamp falls in, named by its left edge;
\* buckets are cut from origin and closed on the left.
bucket_of(ts, origin, w) == origin + ((ts - origin) \div w) * w

\* The value pandas gives an aggregate of no rows; no price is negative.
NaN == -1

\* .agg({...}) on the rows g of the bucket labelled b (lines 182-188)
agg_bucket(g, b) ==
    IF g = << >>
    THEN [timestamp |-> b, open |-> NaN, high |-> NaN, low |-> NaN,
          close |-> NaN, volume |-> 0]
    ELSE [timestamp |-> b,
          open |-> g[1].open,
          high |-> SetMax({g[i].high : i \in 1..Len(g)}),
          low |-> SetMin({g[i].low : i \in 1..Len(g)}),
          close |-> g[Len(g)].close,
          volume |-> Sum([i \in 1..Len(g) |-> g[i].volume])]

\* .dropna() (line 189): the rows with no missing value, in their order
dropna(df) ==
    LET full == {i \in 1..Len(df) :
                   LET row == df[i]
                   IN  /\ row.open # NaN /\ row.high # NaN
                       /\ row.low # NaN /\ row.close # NaN}
    IN  [k \in 1..Cardinality(full) |->
            df[CHOOSE i \in full : Cardinality({j \in full : j <= i}) = k]]

\* df.resample(freq).agg(...) (lines 179-188): the rows ordered by
\* timestamp, the time from midnight of the first row's day cut into
\* buckets of w seconds, one aggregate row for every bucket from the first
\* row's to the last row's.
resample(df, w) ==
    LET rows == sort_values(df)
        origin == DateOf(rows[1].timestamp) * DAY
        first == bucket_of(rows[1].timestamp, origin, w)
        last == bucket_of(rows[Len(rows)].timestamp, origin, w)
        occupied == {bucket_of(rows[i].timestamp, origin, w) :
                       i \in 1..Len(rows)}
        In(b) == IF b \notin occupied THEN << >>
                 ELSE SelectIdx(rows, {i \in 1..Len(rows) :
                          bucket_of(rows[i].timestamp, origin, w) = b})
    IN  [k \in 1..((last - first) \div w + 1) |->
            agg_bucket(In(first + (k - 1) * w), first + (k - 1) * w)]

\* aggregate_bars(df, timeframe).  fetch_bars never passes an empty frame
\* (line 248).
aggregate_bars(df, timeframe) ==
    IF is_passthrough(FreqSeconds(timeframe)) THEN df
    ELSE IF df = << >> THEN << >>
    ELSE dropna(resample(df, FreqSeconds(timeframe)))

\* 2024-01-18 00:00:00 read as UTC, in seconds from 1970-01-01
EPOCH_OF_DAY_0 == 19740 * DAY

mktime_eastern(ts) == EPOCH_OF_DAY_0 + ts + ET_OFFSET

\* calendar.timegm(ts.timetuple()): the wall clock read as UTC
timegm(ts) == EPOCH_OF_DAY_0 + ts

\* round(float(x), 4) on a price in 1/100000 dollar
round4(p) ==
    LET r == p % 10
    IN  IF r < 5 THEN p - r
        ELSE IF r > 5 THEN p - r + 10
        ELSE IF ((p - r) \div 10) % 2 = 0 THEN p - r ELSE p - r + 10

\* bars_to_json(df): lines 201-213
bars_to_json(df) ==
    [i \in 1..Len(df) |->
        [time |-> timegm(df[i].timestamp),
         open |-> round4(df[i].open),
         high |-> round4(df[i].high),
         low |-> round4(df[i].low),
         close |-> round4(df[i].close),
         volume |-> df[i].volume]]

---------------------------------------------------------------------------
(* Bar fetch orchestrator: fetch_bars                                      *)

\* df["timestamp"].max().date()
cache_max_of(df) == DateOf(SetMax({df[i].timestamp : i \in 1..Len(df)}))

tail_always(cache_max, end_date) == TRUE

\* line 240: the cache stops before the requested end date
tail_needed(cache_max, end_date) == cache_max < end_date

provider_range_full(cache_df, start, end) == [start |-> start, end |-> end]

provider_range_skip_first(cache_df, start, end) ==
    IF cache_df = << >> THEN [start |-> start + 1, end |-> end]
    ELSE [start |-> cache_max_of(cache_df) + 1, end |-> end]

\* lines 234-244: the dates load_bars_from_manager is called with, the
\* whole range for an empty cache frame and else the days after its last
provider_range(cache_df, start, end) ==
    IF cache_df = << >> THEN [start |-> start, end |-> end]
    ELSE LET next_day == cache_max_of(cache_df) + 1
         IN  [start |-> next_day, end |-> end]

\* fetch_bars as it would be if it kept what it returned: the list the
\* server's map holds for the start date is returned when there is one.
fetch_bars_remembering(dir, c, start, end, timeframe, mgr, raw) ==
    LET cache_df == IF c.cache_dir THEN load_bars_from_cache(dir, start, end)
                    ELSE << >>
        load == IF c.manager /\ cache_df = << >>
                THEN load_bars_from_manager(start, end, c.has_raw, mgr, raw)
                ELSE [raised |-> FALSE, df |-> << >>, calls |-> << >>]
        df == IF cache_df = << >> THEN load.df ELSE cache_df
    IN  [raised |-> load.raised,
         result |-> IF bars_by_date.configured
                       /\ start \in DOMAIN bars_by_date.entries
                    THEN bars_by_date.entries[start]
                    ELSE IF load.raised \/ filter_trading_days(df) = << >>
                    THEN << >>
                    ELSE bars_to_json(filter_trading_days(df)),
         read |-> << >>, calls |-> load.calls, loads |-> << >>,
         cache_df |-> cache_df, mgr_df |-> load.df, df |-> df,
         mgr |-> mgr, raw |-> raw]

\* fetch_bars(symbol, start, end, timeframe, cache_dir, manager); c is the
\* configuration [cache_dir, manager, has_raw], dir the symbol's directory,
\* mgr and raw what the provider does if asked.  The value is what the call
\* did and returned, with the fields of NoOut.
fetch_bars(dir, c, start, end, timeframe, mgr, raw) ==
    LET cache_df == IF c.cache_dir THEN load_bars_from_cache(dir, start, end)
                    ELSE << >>
        read == IF c.cache_dir /\ dir.exists
                THEN [i \in 1..Len(files_read(dir.files, start, end)) |->
                         files_read(dir.files, start, end)[i].parts]
                ELSE << >>
        whole == cache_df = << >>
        range == provider_range(cache_df, start, end)
        asked == c.manager /\
                 (whole \/ tail_needed(cache_max_of(cache_df), end))
        load == IF asked
                THEN load_bars_from_manager(range.start, range.end,
                                            c.has_raw, mgr, raw)
                ELSE [raised |-> FALSE, df |-> << >>, calls |-> << >>]
        df == IF ~asked THEN cache_df
              ELSE IF whole THEN load.df
              ELSE IF load.df # << >>
              THEN sort_values(cache_df \o load.df)
              ELSE cache_df
        traded == filter_trading_days(df)
        agg == IF timeframe # "1min" THEN aggregate_bars(traded, timeframe)
               ELSE traded
    IN  [raised |-> load.raised,
         result |-> IF load.raised \/ df = << >> \/ traded = << >>
                    THEN << >> ELSE bars_to_json(agg),
         read |-> read,
         calls |-> load.calls,
         loads |-> IF asked THEN <<range>> ELSE << >>,
         cache_df |-> cache_df,
         mgr_df |-> load.df,
         df |-> IF load.raised THEN << >> ELSE df,
         mgr |-> IF asked THEN mgr ELSE NoAnswer,
         raw |-> IF asked /\ mgr.kind = "raise" /\ c.has_raw
                 THEN raw ELSE NoAnswer]

\* The batch variant: fetch_bars for every symbol of the list on its own,
\* a map keyed by symbol.  world gives each symbol its cache directory and
\* what its provider calls do; a symbol whose fetch fails maps to the empty
\* list and leaves the others as they are.
batch_shared_failure(symbols, start, end, timeframe, c, world) ==
    LET failed == \E s \in Range(symbols) :
                     fetch_bars(world[s].dir, c, start, end, timeframe,
                                world[s].mgr, world[s].raw).raised
    IN  [s \in Range(symbols) |->
           IF failed THEN << >>
           ELSE fetch_bars(world[s].dir, c, start, end, timeframe,
                           world[s].mgr, world[s].raw).result]

bars_or_empty(r) == IF r.raised THEN << >> ELSE r.result

fetch_bars_batch(symbols, start, end, timeframe, c, world) ==
    [s \in Range(symbols) |->
       bars_or_empty(fetch_bars(world[s].dir, c, start, end, timeframe,
                                world[s].mgr, world[s].raw))]

---------------------------------------------------------------------------
(* Quotes from bars: _load_latest_bars_from_cache, fetch_quotes            *)

\* The files the scan of lines 276-285 can end on: a name of three parts
\* whose end date no other such name exceeds.  Of several with that end
\* date the first that glob yields wins, and glob promises no order.
latest_candidates(files) ==
    {f \in files :
        /\ Len(f.parts) >= 3
        /\ \A g \in files : Len(g.parts) >= 3 => g.parts[3] <= f.parts[3]}

\* _load_latest_bars_from_cache(symbol, cache_dir), latest being the file
\* the scan ended on: its rows as stored (no time zone is converted),
\* sorted, without repeated timestamps, within the session window, on
\* trading days.
load_latest_bars_from_cache(dir, latest) ==
    IF ~dir.exists \/ latest_candidates(dir.files) = {} THEN << >>
    ELSE IF latest.rows = << >> THEN << >>
    ELSE filter_trading_days(
             session_filter(drop_duplicates(sort_values(latest.rows))))

\* n / d rounded to the nearest whole number, a half to the even one (d > 0)
round_div(n, d) ==
    LET q == n \div d
        r == n % d
    IN  IF 2 * r < d THEN q
        ELSE IF 2 * r > d THEN q + 1
        ELSE IF q % 2 = 0 THEN q ELSE q + 1

RECURSIVE shifted_div(_, _, _)
\* [q, r] with n * 10^k = q * d + r and 0 <= r < d, digit by digit (d > 0)
shifted_div(n, d, k) ==
    IF k = 0 THEN [q |-> n \div d, r |-> n % d]
    ELSE LET x == shifted_div(n, d, k - 1)
         IN  [q |-> x.q * 10 + (x.r * 10) \div d, r |-> (x.r * 10) % d]

\* round((chg / prev_close) * 100, 2), in 1/100 percent
round_pct(chg, prev_close) ==
    LET x == shifted_div(chg, prev_close, 4)
    IN  IF 2 * x.r < prev_close THEN x.q
        ELSE IF 2 * x.r > prev_close THEN x.q + 1
        ELSE IF x.q % 2 = 0 THEN x.q ELSE x.q + 1

\* round(x, 2) and round(x, 4) on an amount in 1/100000 dollar
round2(p) == round_div(p, 1000) * 1000
round_to_4(p) == round_div(p, 10) * 10

only_when_empty(df) == df = << >>

\* line 326: df.empty or len(df) < 2
too_few_rows(df) == df = << >> \/ Len(df) < 2

prev_close_is_open(df_daily) == df_daily[Len(df_daily)].open

\* lines 340-343: the close of the day before the last, else the open of
\* the only day
prev_close_of(df_daily) ==
    IF Len(df_daily) >= 2 THEN df_daily[Len(df_daily) - 1].close
    ELSE df_daily[Len(df_daily)].open

NoQuote == [source |-> "none"]

\* The body of the loop of fetch_quotes from line 326 on: the quote of a
\* frame, NoQuote where the loop continues without one.  changePct is in
\* 1/100 percent.
quote_of(df) ==
    IF too_few_rows(df) THEN NoQuote
    ELSE LET df_daily == dropna(resample(df, DAY))
         IN  IF df_daily = << >> THEN NoQuote
             ELSE LET last_close == df_daily[Len(df_daily)].close
                      last_vol == df_daily[Len(df_daily)].volume
                      prev_close == prev_close_of(df_daily)
                      chg == round_to_4(last_close - prev_close)
                      chg_pct == IF prev_close # 0
                                 THEN round_pct(chg, prev_close)
                                 ELSE 0
                  IN  [price |-> round2(last_close),
                       change |-> chg,
                       changePct |-> chg_pct,
                       prevClose |-> round2(prev_close),
                       volume |-> last_vol,
                       source |-> "cache"]

\* date.today() and the ten days before it (lines 320-321)
Today == MaxDay
LOOKBACK_DAYS == 10

\* A loader that goes to the provider for a symbol the cache has nothing
\* of.
quote_frame_cache_then_provider(c, w) ==
    LET cached == IF c.cache_dir
                  THEN load_latest_bars_from_cache(w.dir, w.latest)
                  ELSE << >>
    IN  IF c.cache_dir /\ (cached # << >> \/ ~c.manager)
        THEN [raised |-> FALSE, skipped |-> FALSE, df |-> cached,
              calls |-> << >>]
        ELSE IF c.manager
        THEN LET r == load_bars_from_manager(Today - LOOKBACK_DAYS, Today,
                                             c.has_raw, w.mgr, w.raw)
             IN  [raised |-> r.raised, skipped |-> FALSE, df |-> r.df,
                  calls |-> r.calls]
        ELSE [raised |-> FALSE, skipped |-> TRUE, df |-> << >>,
              calls |-> << >>]

\* Lines 317-324 for one symbol whose world is w = [dir, latest, mgr, raw]:
\* the frame the quote is derived from and the get_bars calls made for it;
\* raised when the load raised (the loop catches it and goes on), skipped
\* when there is no source.
quote_frame(c, w) ==
    IF c.cache_dir
    THEN [raised |-> FALSE, skipped |-> FALSE,
          df |-> load_latest_bars_from_cache(w.dir, w.latest),
          calls |-> << >>]
    ELSE IF c.manager
    THEN LET r == load_bars_from_manager(Today - LOOKBACK_DAYS, Today,
                                         c.has_raw, w.mgr, w.raw)
         IN  [raised |-> r.raised, skipped |-> FALSE, df |-> r.df,
              calls |-> r.calls]
    ELSE [raised |-> FALSE, skipped |-> TRUE, df |-> << >>, calls |-> << >>]

\* The quote the loop leaves for a symbol whose frame was loaded as fr.
quote_after(fr) ==
    IF fr.raised \/ fr.skipped THEN NoQuote ELSE quote_of(fr.df)

\* fetch_quotes(symbols, cache_dir, manager): the map of the symbols that
\* got a quote; world gives every symbol its directory and provider.
fetch_quotes(symbols, c, world) ==
    LET q == [s \in Range(symbols) |-> quote_after(quote_frame(c, world[s]))]
    IN  [s \in {x \in Range(symbols) : q[x].source # "none"} |-> q[s]]

---------------------------------------------------------------------------
(* fetch_live_quotes: quotes from the provider's snapshot or quote call    *)

\* `not price` (lines 396, 401, 423, 437): true of a price of 0 only
not_price(price) == price = 0

\* Lines 396-398: prev_close = abs(chg / (chg_pct / 100)) and
\* price = round(prev_close + chg, 4); chg_pct is in 1/100 percent.
derived_price(chg, chg_pct) ==
    LET a == IF chg < 0 THEN 0 - chg ELSE chg
        d == IF chg_pct < 0 THEN 0 - chg_pct ELSE chg_pct
        x == shifted_div(a, d, 4)
        n == x.q + chg
    IN  IF x.r > 0 /\ n % 10 = 5 THEN (n \div 10 + 1) * 10
        ELSE round_to_4(n)

\* Lines 401-421: the provider's REST snapshot, asked when there is still
\* no price; st = [price, chg, chg_pct] is kept when the request raises or
\* carries neither close.
rest_fallback(st, rest) ==
    IF rest.kind = "raise" THEN st
    ELSE IF rest.day_c # 0
    THEN LET price == round_to_4(rest.day_c)
             prev_close == rest.prev_c
             chg == IF prev_close # 0 THEN round_to_4(price - prev_close)
                    ELSE 0
         IN  [price |-> price, chg |-> chg,
              chg_pct |-> IF prev_close # 0 THEN round_pct(chg, prev_close)
                          ELSE 0]
    ELSE IF rest.prev_c # 0
    THEN [price |-> round_to_4(rest.prev_c), chg |-> 0, chg_pct |-> 0]
    ELSE st

NoLive == [raised |-> FALSE, price |-> 0, entry |-> NoQuote]

\* Lines 386-433: the get_snapshot branch for one symbol.  A missing value
\* (None) and 0 are the same to the code; change_pct comes in 1/1000
\* percent and is rounded to 1/100.
live_from_snapshot(c, w) ==
    IF w.snap.kind = "raise" THEN [NoLive EXCEPT !.raised = TRUE]
    ELSE LET snap == w.snap
             chg0 == IF snap.change # 0 THEN round_to_4(snap.change) ELSE 0
             pct0 == IF snap.change_pct # 0
                     THEN round_div(snap.change_pct, 10) ELSE 0
             st0 == [price |-> snap.last_price, chg |-> chg0,
                     chg_pct |-> pct0]
             st1 == IF not_price(st0.price) /\ chg0 # 0 /\ pct0 # 0
                    THEN [st0 EXCEPT !.price = derived_price(chg0, pct0)]
                    ELSE st0
             st2 == IF not_price(st1.price) /\ c.session
                    THEN rest_fallback(st1, w.rest)
                    ELSE st1
         IN  [raised |-> FALSE,
              price |-> st2.price,
              entry |-> [price |-> round_to_4(st2.price),
                         bid |-> round_to_4(snap.bid_price),
                         ask |-> round_to_4(snap.ask_price),
                         change |-> st2.chg,
                         changePct |-> st2.chg_pct,
                         source |-> "live"]]

\* Lines 434-444: the get_quote branch for one symbol.
live_from_quote(w) ==
    IF w.quote.kind = "raise" THEN [NoLive EXCEPT !.raised = TRUE]
    ELSE LET q == w.quote
             price == IF q.last_price # 0 THEN q.last_price ELSE q.mid_price
         IN  [raised |-> FALSE,
              price |-> price,
              entry |-> [price |-> round_to_4(price),
                         bid |-> round_to_4(q.bid_price),
                         ask |-> round_to_4(q.ask_price),
                         source |-> "live"]]

\* The body of the try for one symbol: whether the lookup raised, the
\* price it resolved and the entry it would write.
live_lookup(c, w) ==
    IF c.manager = "snapshot" THEN live_from_snapshot(c, w)
    ELSE IF c.manager = "quote" THEN live_from_quote(w)
    ELSE NoLive

\* fetch_live_quotes(symbols, manager): c.manager is "none" for None, else
\* what the manager offers; c.session says providers[0] has a session.
fetch_live_quotes(symbols, c, world) ==
    IF c.manager = "none" THEN << >>
    ELSE LET l == [s \in Range(symbols) |-> live_lookup(c, world[s])]
         IN  [s \in {x \in Range(symbols) :
                       ~l[x].raised /\ ~not_price(l[x].price)} |->
                 l[s].entry]

---------------------------------------------------------------------------
(* UI state store: state.py                                                *)
(*                                                                         *)
(* A key and the text of a file are sequences of characters, a character   *)
(* being a one-character string ("LF" stands for the newline).  A JSON     *)
(* value is [t, v]: None, an integer, or a list of integers.               *)

LF == "LF"
WordChars == {"k", "a", "b", "B", "1", "_"}

\* ^[a-zA-Z0-9_]+$ matched to the very end of the string only
word_only(key) ==
    key # << >> /\ \A i \in 1..Len(key) : key[i] \in WordChars

\* _VALID_KEY.match(key) (lines 18, 28): one or more word characters up to
\* the end of the string; "$" also matches before a newline that ends the
\* string.
valid_key_match(key) ==
    LET body == IF key # << >> /\ key[Len(key)] = LF
                THEN SubSeq(key, 1, Len(key) - 1) ELSE key
    IN  body # << >> /\ \A i \in 1..Len(body) : body[i] \in WordChars

\* _sanitize_key: the key, or None; << >> stands for None (`not safe` holds
\* of None and of the empty string alike)
NoKey == << >>
sanitize_key(key) == IF valid_key_match(key) THEN key ELSE NoKey

state_file_shared(key) == [stem |-> <<"k">>, suffix |-> "json"]

\* _state_file: state_dir / f"{key}.json"
state_file(key) == [stem |-> key, suffix |-> "json"]

\* path.with_suffix(".tmp")
with_suffix_tmp(path) == [path EXCEPT !.suffix = "tmp"]

\* A directory's files with one written or replaced, and with one removed.
Put(files, name, text) ==
    [n \in DOMAIN files \cup {name} |-> IF n = name THEN text ELSE files[n]]
Remove(files, name) == [n \in DOMAIN files \ {name} |-> files[n]]

None == [t |-> "null", v |-> << >>]
Number(n) == [t |-> "int", v |-> <<n>>]
List(items) == [t |-> "list", v |-> items]

DigitChar(d) == <<"0", "1", "2", "3", "4", "5", "6", "7", "8", "9">>[d + 1]

RECURSIVE Digits(_)
Digits(n) ==
    IF n < 10 THEN <<DigitChar(n)>>
    ELSE Digits(n \div 10) \o <<DigitChar(n % 10)>>

RECURSIVE Joined(_)
\* the items of a list, ", " between them
Joined(items) ==
    IF items = << >> THEN << >>
    ELSE IF Len(items) = 1 THEN Digits(items[1])
    ELSE Digits(items[1]) \o <<",", " ">> \o Joined(Tail(items))

\* json.dumps(data)
json_dumps(data) ==
    CASE data.t = "null" -> <<"n", "u", "l", "l">>
      [] data.t = "int" -> Digits(data.v[1])
      [] data.t = "list" -> <<"[">> \o Joined(data.v) \o <<"]">>

\* The values json.loads can give back here.
JsonValues ==
    {None} \cup {Number(n) : n \in 0..49}
    \cup {List(items) : items \in UNION {[1..n -> 0..2] : n \in 0..2}}

\* json.loads(text): the value the text is the JSON of; ok is FALSE where
\* it raises JSONDecodeError (an empty or cut-off text).
json_loads(text) ==
    IF \E x \in JsonValues : json_dumps(x) = text
    THEN [ok |-> TRUE,
          value |-> CHOOSE x \in JsonValues : json_dumps(x) = text]
    ELSE [ok |-> FALSE, value |-> None]

\* load_state(state_dir, key): the value stored, None if the key is
\* refused, the file is missing or its text is no JSON.
load_state(dir, key) ==
    LET safe == sanitize_key(key)
        path == state_file(safe)
    IN  IF safe = NoKey THEN None
        ELSE IF ~dir.exists \/ path \notin DOMAIN dir.files THEN None
        ELSE IF json_loads(dir.files[path]).ok
        THEN json_loads(dir.files[path]).value
        ELSE None

\* save_state(state_dir, key, data): [ret, dir].  fault says where an
\* OSError strikes: "write" in tmp.write_text (the file is left created and
\* empty), "replace" in tmp.replace, "none" nowhere.
save_state(dir, key, data, fault) ==
    LET safe == sanitize_key(key)
        path == state_file(safe)
        tmp == with_suffix_tmp(path)
    IN  IF safe = NoKey THEN [ret |-> FALSE, dir |-> dir]
        ELSE IF fault = "write"
        THEN [ret |-> FALSE,
              dir |-> [exists |-> TRUE,
                       files |-> Put(dir.files, tmp, << >>)]]
        ELSE IF fault = "replace"
        THEN [ret |-> FALSE,
              dir |-> [exists |-> TRUE,
                       files |-> Put(dir.files, tmp, json_dumps(data))]]
        ELSE [ret |-> TRUE,
              dir |-> [exists |-> TRUE,
                       files |-> Put(Remove(dir.files, tmp), path,
                                     json_dumps(data))]]

\* delete_state(state_dir, key): [ret, dir]; unlink(missing_ok=True)
delete_state(dir, key) ==
    LET safe == sanitize_key(key)
        path == state_file(safe)
    IN  IF safe = NoKey THEN [ret |-> FALSE, dir |-> dir]
        ELSE [ret |-> TRUE,
              dir |-> [dir EXCEPT !.files = Remove(@, path)]]

---------------------------------------------------------------------------
(* The inputs the model draws from                                         *)

TZ == {"naive", "UTC"}

\* A bar at ts; tag tells the bars of different sources apart.
MkBar(ts, tag) ==
    [timestamp |-> ts, open |-> tag * 100000, high |-> tag * 100000 + 6,
     low |-> tag * 100000 - 4, close |-> tag * 100000 + 1,
     volume |-> tag * 100]

\* What a file or provider stamping in zone z holds for Eastern instants.
StoreRows(rows, z) ==
    [i \in 1..Len(rows) |->
        [rows[i] EXCEPT !.timestamp =
            IF z = "naive" THEN @ ELSE @ + ET_OFFSET]]

SeqUpTo(S, n) == UNION {[1..k -> S] : k \in 0..n}

\* Times of day at both edges of the session window, to the second.
SessionTimes ==
    {At(0, 3, 59, 59), At(0, 4, 0, 0), At(0, 20, 0, 0), At(0, 20, 0, 59),
     At(0, 20, 1, 0)}

SessionBars == {MkBar(d * DAY + t, 1) : d \in Days, t \in SessionTimes}
DailyBars(tag) == {MkBar(At(d, 10, 0, 0), tag) : d \in Days}

\* "1min_<first day>_<last day>" and its k-th sibling
WideParts(k) ==
    IF k = 1 THEN <<"1min", 0, MaxDay>> ELSE <<"1min", 0, MaxDay, k>>

AbsentDir == [exists |-> FALSE, files |-> {}]

\* One wide segment, rows at the edges of the session window.
SessionDirs ==
    {[exists |-> TRUE,
      files |-> {[parts |-> WideParts(1), tz |-> z,
                  rows |-> StoreRows(rows, z)]}] :
        z \in TZ, rows \in SeqUpTo(SessionBars, MaxRows)}

\* Segments of every name, one row each, on the first or the second day
\* whatever the name declares.
Names ==
    {<<"1min", 0>>} \cup {<<"1min", s, e>> : s \in Days, e \in Days}
    \cup {WideParts(2)}
NameTag(p) == Len(p) * 100 + p[2] * 10 + (IF Len(p) >= 3 THEN p[3] ELSE 0)
NamedFiles ==
    {[parts |-> p, tz |-> "naive",
      rows |-> <<MkBar(At(d, 10, 0, 0), NameTag(p))>>] :
        p \in Names, d \in {0, 1}}

RECURSIVE FileSets(_)
\* Sets of at most k named files with distinct names.
FileSets(k) ==
    IF k = 0 THEN {{}}
    ELSE LET smaller == FileSets(k - 1)
         IN  smaller \cup
             {F \cup {f} : F \in smaller,
                           f \in NamedFiles}
NameDirs ==
    {[exists |-> TRUE, files |-> F] :
        F \in {G \in FileSets(MaxFiles) :
                  \A f, g \in G : f.parts = g.parts => f = g}}

RECURSIVE MergeFiles(_, _)
\* Wide segments 1..k holding at most n rows together, in any order, each
\* segment stamped in a zone of its own.
MergeFiles(k, n) ==
    IF k = 0 THEN {{}}
    ELSE UNION
           {{F \cup {[parts |-> WideParts(k), tz |-> z,
                      rows |-> StoreRows(rows, z)]} :
                F \in MergeFiles(k - 1, n - Len(rows)), z \in TZ} :
              rows \in SeqUpTo(DailyBars(k), n)}
MergeDirs ==
    {[exists |-> TRUE, files |-> F] :
        F \in UNION {MergeFiles(m, MaxRows) : m \in 0..MaxFiles}}

\* One wide tz-naive segment of at most MaxRows rows, one time a day.
FetchDirs ==
    {AbsentDir} \cup
    {[exists |-> TRUE,
      files |-> {[parts |-> WideParts(1), tz |-> "naive", rows |-> rows]}] :
        rows \in SeqUpTo(DailyBars(1), MaxRows)}

\* What a get_bars call may do: at most MaxRows bars, in any order, on any
\* day (whatever range was asked), stamped UTC or tz-naive.
Answers ==
    {Answer(k, "naive", << >>) : k \in {"raise", "none", "malformed", "bars"}}
    \cup {Answer("bars", z, StoreRows(bars, z)) :
            z \in TZ, bars \in SeqUpTo(DailyBars(9), MaxRows) \ {<< >>}}

\* The server's cache: no directory, or one segment with a bar on day 0.
ServeDirs ==
    {AbsentDir,
     [exists |-> TRUE,
      files |-> {[parts |-> WideParts(1), tz |-> "naive",
                  rows |-> <<MkBar(At(0, 10, 0, 0), 1)>>]}]}

\* What the provider may do for the server: fail, or answer with one bar.
ServeAnswers ==
    {a \in Answers : a.tz = "naive" /\ Len(a.bars) <= 1}

CacheDirs == {AbsentDir} \cup SessionDirs \cup NameDirs \cup MergeDirs

---------------------------------------------------------------------------
(* State                                                                   *)

NoReq == [start |-> 0, end |-> 0, timeframe |-> "1min"]
NoOut ==
    [raised |-> FALSE,      \* the call raised instead of returning
     result |-> << >>,      \* what it returned
     read |-> << >>,        \* names of the segment files it read, in order
     calls |-> << >>,       \* get_bars calls it made: [target, start, end]
     loads |-> << >>,       \* load_bars_from_manager calls: [start, end]
     cache_df |-> << >>,    \* fetch_bars: what the cache gave
     mgr_df |-> << >>,      \* fetch_bars: what the provider load gave
     df |-> << >>,          \* fetch_bars: df before the trading-day filter
     mgr |-> NoAnswer,      \* what manager.get_bars did, if called
     raw |-> NoAnswer]      \* what providers[0].get_bars did, if called
NoCfg == [cache_dir |-> FALSE, manager |-> FALSE, has_raw |-> FALSE]

NoMemo == [configured |-> FALSE, entries |-> << >>]
NoStateDir == [exists |-> FALSE, files |-> << >>]

PartsOf(fs) == [i \in 1..Len(fs) |-> fs[i].parts]

\* load_bars_from_cache(symbol, start, end, cache_dir), called on its own
call_load_bars_from_cache ==
    /\ op = "idle"
    /\ cfg.cache_dir
    /\ \E start \in Days, end \in Days :
         /\ req' = [NoReq EXCEPT !.start = start, !.end = end]
         /\ out' = [NoOut EXCEPT
                      !.read = IF cache.exists
                               THEN PartsOf(files_read(cache.files, start, end))
                               ELSE << >>,
                      !.result = load_bars_from_cache(cache, start, end)]
    /\ op' = "load_bars_from_cache"
    /\ UNCHANGED <<cache, cfg, trades, bars_by_date, threads,
                   state_dir, write_lock>>

\* load_bars_from_manager(symbol, start, end, manager), called on its own
call_load_bars_from_manager ==
    /\ op = "idle"
    /\ cfg.manager
    /\ \E start \in Days, end \in Days, mgr \in Answers :
         \E raw \in IF mgr.kind = "raise" /\ cfg.has_raw
                     THEN Answers ELSE {NoAnswer} :
            LET r == load_bars_from_manager(start, end, cfg.has_raw, mgr, raw)
            IN  /\ req' = [NoReq EXCEPT !.start = start, !.end = end]
                /\ out' = [NoOut EXCEPT !.raised = r.raised, !.result = r.df,
                                        !.calls = r.calls, !.mgr = mgr,
                                        !.raw = raw]
    /\ op' = "load_bars_from_manager"
    /\ UNCHANGED <<cache, cfg, trades, bars_by_date, threads,
                   state_dir, write_lock>>

\* fetch_bars(symbol, start, end, timeframe, cache_dir, manager)
call_fetch_bars ==
    /\ op = "idle"
    /\ \E start \in Days, end \in Days, timeframe \in Timeframes :
         \E mgr \in IF cfg.manager THEN Answers ELSE {NoAnswer} :
            \E raw \in IF mgr.kind = "raise" /\ cfg.has_raw
                        THEN Answers ELSE {NoAnswer} :
               /\ req' = [start |-> start, end |-> end,
                          timeframe |-> timeframe]
               /\ out' = fetch_bars(cache, cfg, start, end, timeframe,
                                    mgr, raw)
    /\ op' = "fetch_bars"
    /\ UNCHANGED <<cache, cfg, trades, bars_by_date, threads,
                   state_dir, write_lock>>

\* No provider: every cache directory, or no cache directory configured.
InitCache ==
    /\ \/ cache \in CacheDirs /\ cfg = [NoCfg EXCEPT !.cache_dir = TRUE]
       \/ cache = AbsentDir /\ cfg = NoCfg
    /\ op = "idle"
    /\ req = NoReq
    /\ out = NoOut
    /\ trades = << >>
    /\ bars_by_date = NoMemo
    /\ threads = << >>
    /\ state_dir = NoStateDir
    /\ write_lock = 0

NextCache == call_load_bars_from_cache \/ call_fetch_bars

SpecCache == InitCache /\ [][NextCache]_vars

\* A provider is configured, with or without a raw provider behind it.
Init ==
    /\ \E cd \in BOOLEAN, hr \in BOOLEAN :
         /\ cfg = [cache_dir |-> cd, manager |-> TRUE, has_raw |-> hr]
         /\ cache \in IF cd THEN FetchDirs ELSE {AbsentDir}
    /\ op = "idle"
    /\ req = NoReq
    /\ out = NoOut
    /\ trades = << >>
    /\ bars_by_date = NoMemo
    /\ threads = << >>
    /\ state_dir = NoStateDir
    /\ write_lock = 0

Next == call_fetch_bars \/ call_load_bars_from_manager

Spec == Init /\ [][Next]_vars

---------------------------------------------------------------------------
(* aggregate_bars and bars_to_json called on their own                     *)

AggTimeframes == {"1min", "2min", "5min", "7min", "1hour", "1day"}

\* One-minute bars: three minutes in a row, one after a gap, one a day on.
AggTimes ==
    {At(0, 10, 0, 0), At(0, 10, 1, 0), At(0, 10, 2, 0), At(0, 10, 6, 0),
     At(1, 10, 0, 0)}
AggBars == {MkBar(t, tag) : t \in AggTimes, tag \in {1, 2}}

\* Frames of at most MaxBars rows, in any order, timestamps repeated or not.
AggSeries == SeqUpTo(AggBars, MaxBars)

\* Frames to encode: bars on the minute and one stamped to the second.
JsonSeries == SeqUpTo(AggBars \cup {MkBar(At(1, 3, 59, 59), 3)}, MaxRows)

\* aggregate_bars(df, timeframe).  set_index("timestamp") and resample need
\* the timestamp column and a row: an empty frame is passed for "1min" only.
call_aggregate_bars ==
    /\ op = "idle"
    /\ \E df \in AggSeries, timeframe \in AggTimeframes :
         /\ ~(df = << >> /\ timeframe # "1min")
         /\ req' = [NoReq EXCEPT !.timeframe = timeframe]
         /\ out' = [NoOut EXCEPT !.df = df,
                                 !.result = aggregate_bars(df, timeframe)]
    /\ op' = "aggregate_bars"
    /\ UNCHANGED <<cache, cfg, trades, bars_by_date, threads,
                   state_dir, write_lock>>

\* bars_to_json(df)
call_bars_to_json ==
    /\ op = "idle"
    /\ \E df \in JsonSeries :
         /\ req' = NoReq
         /\ out' = [NoOut EXCEPT !.df = df, !.result = bars_to_json(df)]
    /\ op' = "bars_to_json"
    /\ UNCHANGED <<cache, cfg, trades, bars_by_date, threads,
                   state_dir, write_lock>>

\* No cache directory and no provider: the functions take frames only.
InitAgg ==
    /\ cache = AbsentDir
    /\ cfg = NoCfg
    /\ op = "idle"
    /\ req = NoReq
    /\ out = NoOut
    /\ trades = << >>
    /\ bars_by_date = NoMemo
    /\ threads = << >>
    /\ state_dir = NoStateDir
    /\ write_lock = 0

NextAgg == call_aggregate_bars \/ call_bars_to_json

SpecAgg == InitAgg /\ [][NextAgg]_vars

---------------------------------------------------------------------------
(* fetch_quotes called on its own                                          *)

SymbolLists == {<< >>, <<"AAPL">>, <<"AAPL", "MSFT">>}

\* Bars for quotes: two minutes of one day and a minute of the next, closes
\* to the cent and finer, and a close of 0.
QuoteTimes == {At(0, 10, 0, 0), At(0, 10, 1, 0), At(1, 10, 0, 0)}
QuoteCloses == {0, 10000000, 10250000, 10012300, 10245600}
QuoteBar(ts, c) ==
    LET o == IF c = 0 THEN 0 ELSE 9950000
    IN  [timestamp |-> ts, open |-> o,
         high |-> IF c > o THEN c ELSE o, low |-> IF c < o THEN c ELSE o,
         close |-> c, volume |-> 100]
QuoteBars == {QuoteBar(t, c) : t \in QuoteTimes, c \in QuoteCloses}
QuoteSeries == SeqUpTo(QuoteBars, MaxRows)

NoFile == [parts |-> << >>, tz |-> "naive", rows |-> << >>]
TwoDays == <<QuoteBar(At(0, 10, 0, 0), 10000000),
             QuoteBar(At(1, 10, 0, 0), 10250000)>>

\* Segments of different end dates, of the same end date, and of a short
\* name, for the scan for the latest file.
LatestFiles ==
    {[parts |-> <<"1min", 0, 0>>, tz |-> "naive",
      rows |-> <<QuoteBar(At(0, 10, 0, 0), 10012300)>>],
     [parts |-> <<"1min", 0, 1>>, tz |-> "naive", rows |-> TwoDays],
     [parts |-> <<"1min", 1, 1>>, tz |-> "naive", rows |-> << >>],
     [parts |-> <<"1min", 2>>, tz |-> "naive", rows |-> TwoDays]}

\* A symbol's world when quotes come from the cache: its directory and the
\* file the scan for the latest ends on.
CacheWorlds ==
    {[dir |-> AbsentDir, latest |-> NoFile, mgr |-> NoAnswer,
      raw |-> NoAnswer]}
    \cup {[dir |-> [exists |-> TRUE,
                    files |-> {[parts |-> WideParts(1), tz |-> "naive",
                                rows |-> rows]}],
           latest |-> [parts |-> WideParts(1), tz |-> "naive",
                       rows |-> rows],
           mgr |-> NoAnswer, raw |-> NoAnswer] : rows \in QuoteSeries}
    \cup UNION {
          {[dir |-> [exists |-> TRUE, files |-> F], latest |-> f,
            mgr |-> NoAnswer, raw |-> NoAnswer] :
              f \in IF latest_candidates(F) = {} THEN {NoFile}
                    ELSE latest_candidates(F)} :
          F \in SUBSET LatestFiles}

\* A symbol's world when quotes come from the provider.
ManagerWorlds ==
    {[dir |-> AbsentDir, latest |-> NoFile, mgr |-> a, raw |-> NoAnswer] :
        a \in {Answer(k, "naive", << >>) :
                 k \in {"raise", "none", "malformed"}}
              \cup {Answer("bars", "naive", rows) :
                      rows \in QuoteSeries \ {<< >>}}}

\* A symbol's world when a cache directory and a provider are both passed:
\* the provider has two days of bars for whoever asks.
BothWorlds ==
    {[w EXCEPT !.mgr = Answer("bars", "naive", TwoDays)] : w \in CacheWorlds}

QuoteWorlds(c) ==
    IF c.cache_dir THEN IF c.manager THEN BothWorlds ELSE CacheWorlds
    ELSE IF c.manager THEN ManagerWorlds
    ELSE {[dir |-> AbsentDir, latest |-> NoFile, mgr |-> NoAnswer,
           raw |-> NoAnswer]}

\* The worlds of the second symbol: no data, or two days of it.
OtherWorlds(c) ==
    {w \in QuoteWorlds(c) :
        /\ w.dir.exists => \E f \in w.dir.files :
                               f.parts = WideParts(1) /\ f.rows = TwoDays
        /\ w.mgr.kind \in {"unasked", "raise", "malformed"}
              \/ w.mgr.bars = TwoDays}

\* fetch_quotes(symbols, cache_dir, manager)
call_fetch_quotes ==
    /\ op = "idle"
    /\ \E symbols \in SymbolLists :
         \E first \in QuoteWorlds(cfg), other \in OtherWorlds(cfg) :
            LET world == [s \in Range(symbols) |->
                            IF s = "AAPL" THEN first ELSE other]
            IN  /\ req' = [symbols |-> symbols, world |-> world]
                /\ out' = [raised |-> FALSE,
                           result |-> fetch_quotes(symbols, cfg, world),
                           frames |-> [s \in Range(symbols) |->
                                         quote_frame(cfg, world[s])]]
    /\ op' = "fetch_quotes"
    /\ UNCHANGED <<cache, cfg, trades, bars_by_date, threads,
                   state_dir, write_lock>>

\* The sources a caller of the quote functions may pass.
InitQuotes ==
    /\ cache = AbsentDir
    /\ cfg \in {NoCfg, [NoCfg EXCEPT !.cache_dir = TRUE],
                 [NoCfg EXCEPT !.manager = TRUE],
                 [NoCfg EXCEPT !.cache_dir = TRUE, !.manager = TRUE]}
    /\ op = "idle"
    /\ req = NoReq
    /\ out = NoOut
    /\ trades = << >>
    /\ bars_by_date = NoMemo
    /\ threads = << >>
    /\ state_dir = NoStateDir
    /\ write_lock = 0

NextQuotes == call_fetch_quotes

SpecQuotes == InitQuotes /\ [][NextQuotes]_vars

---------------------------------------------------------------------------
(* fetch_live_quotes called on its own                                     *)

\* What a snapshot may carry: a last price that is missing (0), positive
\* or negative, changes that agree with each other or not.
LivePrices == {0, 10250000, 10012346, 0 - 100000}
LiveChanges == {0, 250000, 0 - 300000}
LiveChangePcts == {0, 2500, 0 - 150000}
RestAnswers ==
    {[kind |-> "raise", day_c |-> 0, prev_c |-> 0]}
    \cup {[kind |-> "json", day_c |-> d, prev_c |-> p] :
            d \in {0, 10250000}, p \in {0, 10000000}}
NoRest == [kind |-> "unasked", day_c |-> 0, prev_c |-> 0]
NoLookup == [kind |-> "unasked"]

Snapshots ==
    {[kind |-> "raise"]}
    \cup {[kind |-> "snapshot", last_price |-> p, bid_price |-> 10249000,
           ask_price |-> 10251004, change |-> ch, change_pct |-> pc] :
            p \in LivePrices, ch \in LiveChanges, pc \in LiveChangePcts}

Quotes ==
    {[kind |-> "raise"]}
    \cup {[kind |-> "quote", last_price |-> p, mid_price |-> m,
           bid_price |-> 10249000, ask_price |-> 10251004] :
            p \in LivePrices, m \in {0, 10250000}}

LiveCfgs ==
    {[manager |-> m, session |-> b] :
        m \in {"none", "snapshot", "quote", "bare"}, b \in BOOLEAN}

LiveWorlds(c) ==
    IF c.manager = "snapshot"
    THEN {[snap |-> sn, rest |-> r, quote |-> NoLookup] :
            sn \in Snapshots,
            r \in IF c.session THEN RestAnswers ELSE {NoRest}}
    ELSE IF c.manager = "quote"
    THEN {[snap |-> NoLookup, rest |-> NoRest, quote |-> q] : q \in Quotes}
    ELSE {[snap |-> NoLookup, rest |-> NoRest, quote |-> NoLookup]}

\* The worlds of the second symbol: a lookup that raises, or a good price.
OtherLiveWorlds(c) ==
    {w \in LiveWorlds(c) :
        /\ w.snap.kind = "snapshot" =>
             /\ w.snap.last_price = 10250000
             /\ w.snap.change = 250000 /\ w.snap.change_pct = 2500
        /\ w.rest.kind \in {"unasked", "raise"}
        /\ w.quote.kind = "quote" =>
             w.quote.last_price = 10250000 /\ w.quote.mid_price = 0}

\* fetch_live_quotes(symbols, manager)
call_fetch_live_quotes ==
    /\ op = "idle"
    /\ \E symbols \in SymbolLists :
         \E first \in LiveWorlds(cfg), other \in OtherLiveWorlds(cfg) :
            LET world == [s \in Range(symbols) |->
                            IF s = "AAPL" THEN first ELSE other]
            IN  /\ req' = [symbols |-> symbols, world |-> world]
                /\ out' = [raised |-> FALSE,
                           result |-> fetch_live_quotes(symbols, cfg, world),
                           lookups |-> [s \in Range(symbols) |->
                                          live_lookup(cfg, world[s])]]
    /\ op' = "fetch_live_quotes"
    /\ UNCHANGED <<cache, cfg, trades, bars_by_date, threads,
                   state_dir, write_lock>>

InitLive ==
    /\ cache = AbsentDir
    /\ cfg \in LiveCfgs
    /\ op = "idle"
    /\ req = NoReq
    /\ out = NoOut
    /\ trades = << >>
    /\ bars_by_date = NoMemo
    /\ threads = << >>
    /\ state_dir = NoStateDir
    /\ write_lock = 0

NextLive == call_fetch_live_quotes

SpecLive == InitLive /\ [][NextLive]_vars

---------------------------------------------------------------------------
(* fetch_bars_batch called on its own                                      *)

\* A symbol's cache directory: none, or one segment of at most one bar.
BatchDirs ==
    {d \in FetchDirs : \A f \in d.files : Len(f.rows) <= 1}

BatchCfgs ==
    {[cache_dir |-> cd, manager |-> m, has_raw |-> FALSE] :
        cd \in BOOLEAN, m \in BOOLEAN}

BatchWorlds(c) ==
    {[dir |-> d, mgr |-> a, raw |-> NoAnswer] :
        d \in IF c.cache_dir THEN BatchDirs ELSE {AbsentDir},
        a \in IF c.manager THEN ServeAnswers ELSE {NoAnswer}}

\* The worlds of the second symbol: no data, a provider that fails or
\* answers with no Bars, or a bar on day 0.
OtherBatchWorlds(c) ==
    {w \in BatchWorlds(c) :
        /\ \A f \in w.dir.files : f.rows = <<MkBar(At(0, 10, 0, 0), 1)>>
        /\ w.mgr.kind \in {"unasked", "raise", "malformed"}}

\* fetch_bars_batch(symbols, start, end, timeframe, cache_dir, manager)
call_fetch_bars_batch ==
    /\ op = "idle"
    /\ \E symbols \in SymbolLists, start \in Days, end \in Days,
          timeframe \in Timeframes :
         \E first \in BatchWorlds(cfg), other \in OtherBatchWorlds(cfg) :
            LET world == [s \in Range(symbols) |->
                            IF s = "AAPL" THEN first ELSE other]
            IN  /\ req' = [symbols |-> symbols, start |-> start,
                           end |-> end, timeframe |-> timeframe,
                           world |-> world]
                /\ out' = [raised |-> FALSE,
                           result |-> fetch_bars_batch(symbols, start, end,
                                                       timeframe, cfg, world)]
    /\ op' = "fetch_bars_batch"
    /\ UNCHANGED <<cache, cfg, trades, bars_by_date, threads,
                   state_dir, write_lock>>

InitBatch ==
    /\ cache = AbsentDir
    /\ cfg \in BatchCfgs
    /\ op = "idle"
    /\ req = NoReq
    /\ out = NoOut
    /\ trades = << >>
    /\ bars_by_date = NoMemo
    /\ threads = << >>
    /\ state_dir = NoStateDir
    /\ write_lock = 0

NextBatch == call_fetch_bars_batch

SpecBatch == InitBatch /\ [][NextBatch]_vars

---------------------------------------------------------------------------
(* load_bars_from_manager called on its own, on a manager with or without  *)
(* a raw provider behind it                                                *)

InitManager ==
    /\ cache = AbsentDir
    /\ cfg \in {[cache_dir |-> FALSE, manager |-> TRUE, has_raw |-> hr] :
                   hr \in BOOLEAN}
    /\ op = "idle"
    /\ req = NoReq
    /\ out = NoOut
    /\ trades = << >>
    /\ bars_by_date = NoMemo
    /\ threads = << >>
    /\ state_dir = NoStateDir
    /\ write_lock = 0

NextManager == call_load_bars_from_manager

SpecManager == InitManager /\ [][NextManager]_vars

---------------------------------------------------------------------------
(* GET /api/trades/bars/<date>: ChartRequestHandler._serve_trade_bars      *)
(*                                                                         *)
(* ChartHTTPServer is a ThreadingMixIn server: every request runs          *)
(* do_GET on a thread of its own, and the threads share server.trades and  *)
(* server.bars_by_date.  A thread is [pc, path, query, date, bars, raised,  *)
(* sent]: the position of its handler, the route and the query parameters  *)
(* of its request, the trade date asked for, the bars fetched, whether     *)
(* fetch_bars raised, and the response sent.  _serve_trade_bars is cut     *)
(* where it calls fetch_bars, which reads files and waits for the provider *)
(* while other threads run; _serve_bars writes nothing that is shared and  *)
(* is one step.                                                            *)

NoResponse == [status |-> 0, body |-> << >>]
Json(data) == [status |-> 200, body |-> data]
IdleThread ==
    [pc |-> "idle", path |-> "", query |-> {}, date |-> 0, bars |-> << >>,
     raised |-> FALSE, sent |-> NoResponse]

\* The dates trades are dated and requests ask for.
TradeDates == {0, 1}
Trade(d) == [date |-> d, symbol |-> "AAPL"]

\* lines 269-277: the symbol of the first trade of that date, else of the
\* first trade, else ""
symbol_for(trade_date) ==
    IF trades # << >>
    THEN LET hits == {i \in 1..Len(trades) : trades[i].date = trade_date}
         IN  IF hits # {} /\ trades[SetMin(hits)].symbol # ""
             THEN trades[SetMin(hits)].symbol
             ELSE trades[1].symbol
    ELSE ""

\* lines 263-281: the memoized list is sent if the date is in the map; if
\* not and no symbol is found, [] is sent; else the thread goes on to fetch
serve_trade_bars_lookup(t) ==
    /\ threads[t].pc = "idle"
    /\ \E trade_date \in TradeDates :
         IF /\ bars_by_date.configured
            /\ bars_by_date.entries # << >>
            /\ trade_date \in DOMAIN bars_by_date.entries
         THEN threads' = [threads EXCEPT ![t] =
                  [pc |-> "done", path |-> "/api/trades/bars/", query |-> {},
                   date |-> trade_date, bars |-> << >>, raised |-> FALSE,
                   sent |-> Json(bars_by_date.entries[trade_date])]]
         ELSE IF symbol_for(trade_date) = ""
         THEN threads' = [threads EXCEPT ![t] =
                  [pc |-> "done", path |-> "/api/trades/bars/", query |-> {},
                   date |-> trade_date, bars |-> << >>, raised |-> FALSE,
                   sent |-> Json(<< >>)]]
         ELSE threads' = [threads EXCEPT ![t] =
                  [pc |-> "fetching", path |-> "/api/trades/bars/", query |-> {},
                   date |-> trade_date, bars |-> << >>, raised |-> FALSE,
                   sent |-> NoResponse]]
    /\ UNCHANGED <<cache, cfg, op, req, out, trades, bars_by_date,
                   state_dir, write_lock>>

\* The thread th once its fetch_bars call has ended as r.
after_fetch(th, r) ==
    IF r.raised THEN [th EXCEPT !.pc = "failed", !.raised = TRUE]
    ELSE [th EXCEPT !.pc = "fetched", !.bars = r.result]

\* lines 283-290: fetch_bars for that one day at 5min; an exception leaves
\* the handler, nothing is stored and nothing is sent
serve_trade_bars_fetch(t) ==
    /\ threads[t].pc = "fetching"
    /\ \E mgr \in IF cfg.manager THEN ServeAnswers ELSE {NoAnswer} :
         \E raw \in IF mgr.kind = "raise" /\ cfg.has_raw
                     THEN ServeAnswers ELSE {NoAnswer} :
            threads' = [threads EXCEPT ![t] =
                after_fetch(@, fetch_bars(cache, cfg, @.date, @.date, "5min",
                                          mgr, raw))]
    /\ UNCHANGED <<cache, cfg, op, req, out, trades, bars_by_date,
                   state_dir, write_lock>>

\* A store that keeps only the date just fetched.
serve_trade_bars_store_evicting(t) ==
    /\ threads[t].pc = "fetched"
    /\ bars_by_date' =
         IF bars_by_date.configured
         THEN [bars_by_date EXCEPT !.entries =
                 [d \in {threads[t].date} |-> threads[t].bars]]
         ELSE bars_by_date
    /\ threads' = [threads EXCEPT ![t] =
                     [@ EXCEPT !.pc = "done", !.sent = Json(threads[t].bars)]]
    /\ UNCHANGED <<cache, cfg, op, req, out, trades,
                   state_dir, write_lock>>

\* lines 291-294: the list is stored under the date and sent
serve_trade_bars_store(t) ==
    /\ threads[t].pc = "fetched"
    /\ bars_by_date' =
         IF bars_by_date.configured
         THEN [bars_by_date EXCEPT !.entries =
                 [d \in DOMAIN @ \cup {threads[t].date} |->
                     IF d = threads[t].date THEN threads[t].bars ELSE @[d]]]
         ELSE bars_by_date
    /\ threads' = [threads EXCEPT ![t] =
                     [@ EXCEPT !.pc = "done", !.sent = Json(threads[t].bars)]]
    /\ UNCHANGED <<cache, cfg, op, req, out, trades,
                   state_dir, write_lock>>

\* The query parameters _serve_bars requires, and the answer when one is
\* missing (lines 171-173).
BarsParams == {"symbol", "start", "end"}
BadRequest ==
    [status |-> 400, body |-> [error |-> "Missing symbol, start, or end"]]

\* The queries requests to /api/bars come with: complete, or one parameter
\* short.
BarsQueries == {BarsParams} \cup {BarsParams \ {p} : p \in BarsParams}

\* A _serve_bars that lets the exception of fetch_bars leave the handler.
answer_or_fail(th, r) ==
    IF r.raised THEN [th EXCEPT !.pc = "failed", !.raised = TRUE]
    ELSE [th EXCEPT !.pc = "done", !.bars = r.result, !.sent = Json(r.result)]

\* lines 175-183: the bars fetch_bars returned are sent, and [] if it raised
answer_or_empty(th, r) ==
    IF r.raised
    THEN [th EXCEPT !.pc = "done", !.raised = TRUE, !.sent = Json(<< >>)]
    ELSE [th EXCEPT !.pc = "done", !.bars = r.result, !.sent = Json(r.result)]

\* lines 165-183: GET /api/bars?symbol=&start=&end=&timeframe=
serve_bars(t) ==
    /\ threads[t].pc = "idle"
    /\ \E query \in BarsQueries :
         LET th == [IdleThread EXCEPT !.path = "/api/bars", !.query = query]
         IN  IF query # BarsParams
             THEN threads' = [threads EXCEPT ![t] =
                      [th EXCEPT !.pc = "done", !.sent = BadRequest]]
             ELSE \E start \in TradeDates, timeframe \in {"1min", "5min"} :
                  \E end \in {d \in TradeDates : d >= start} :
                  \E mgr \in IF cfg.manager THEN ServeAnswers ELSE {NoAnswer} :
                  \E raw \in IF mgr.kind = "raise" /\ cfg.has_raw
                              THEN ServeAnswers ELSE {NoAnswer} :
                     threads' = [threads EXCEPT ![t] =
                         answer_or_empty(th, fetch_bars(cache, cfg, start, end,
                                                        timeframe, mgr, raw))]
    /\ UNCHANGED <<cache, cfg, op, req, out, trades, bars_by_date,
                   state_dir, write_lock>>

\* ChartServer.serve (app.py 76-86): the configuration the server starts on
InitServe ==
    /\ cache \in ServeDirs
    /\ cfg = [cache_dir |-> TRUE, manager |-> TRUE, has_raw |-> FALSE]
    /\ op = "idle"
    /\ req = NoReq
    /\ out = NoOut
    /\ trades \in {<< >>, <<Trade(0)>>, <<Trade(1), Trade(0)>>}
    /\ bars_by_date \in
         {NoMemo, [configured |-> TRUE, entries |-> << >>],
          [configured |-> TRUE, entries |-> [d \in {0} |-> << >>]]}
    /\ threads = [t \in 1..NThreads |-> IdleThread]
    /\ state_dir = NoStateDir
    /\ write_lock = 0

NextServe ==
    \E t \in 1..NThreads :
        \/ serve_trade_bars_lookup(t)
        \/ serve_trade_bars_fetch(t)
        \/ serve_trade_bars_store(t)
        \/ serve_bars(t)

SpecServe == InitServe /\ [][NextServe]_vars

---------------------------------------------------------------------------
(* fetch_bars called twice with the same arguments while the server's      *)
(* request threads run                                                     *)

\* The first call: any one day or range of the trade dates, the provider
\* answering as it may.
fetch_bars_first ==
    /\ op = "idle"
    /\ \E start \in TradeDates, end \in TradeDates, timeframe \in Timeframes :
         \E mgr \in IF cfg.manager THEN ServeAnswers ELSE {NoAnswer} :
            /\ req' = [start |-> start, end |-> end, timeframe |-> timeframe,
                       mgr |-> mgr]
            /\ out' = [first |-> fetch_bars(cache, cfg, start, end, timeframe,
                                            mgr, NoAnswer),
                       again |-> NoOut]
    /\ op' = "fetch_bars_first"
    /\ UNCHANGED <<cache, cfg, trades, bars_by_date, threads,
                   state_dir, write_lock>>

\* The second call: the same arguments, the provider answering the same.
fetch_bars_again ==
    /\ op = "fetch_bars_first"
    /\ out' = [out EXCEPT !.again =
                  fetch_bars(cache, cfg, req.start, req.end, req.timeframe,
                             req.mgr, NoAnswer)]
    /\ op' = "fetch_bars_again"
    /\ UNCHANGED <<cache, cfg, req, trades, bars_by_date, threads,
                   state_dir, write_lock>>

InitRepeat ==
    /\ cache \in {d \in ServeDirs : d.exists}
    /\ cfg = [cache_dir |-> TRUE, manager |-> TRUE, has_raw |-> FALSE]
    /\ op = "idle"
    /\ req = NoReq
    /\ out = NoOut
    /\ trades = <<Trade(0)>>
    /\ bars_by_date = [configured |-> TRUE, entries |-> << >>]
    /\ threads = [t \in 1..NThreads |-> IdleThread]
    /\ state_dir = NoStateDir
    /\ write_lock = 0

NextRepeat ==
    \/ fetch_bars_first
    \/ fetch_bars_again
    \/ \E t \in 1..NThreads :
          \/ serve_trade_bars_lookup(t)
          \/ serve_trade_bars_fetch(t)
          \/ serve_trade_bars_store(t)

SpecRepeat == InitRepeat /\ [][NextRepeat]_vars

---------------------------------------------------------------------------
(* save_state, load_state and delete_state called one after another        *)

MaxCalls == 3

\* Keys the tests accept and refuse, and one that ends in a newline.
StateKeys ==
    {<<"k">>, <<"a", "_", "B", "1">>, <<"a", "/", "b">>, <<"k", ".", "k">>,
     <<"k", LF>>}

StateValues == {None, Number(42), List(<<1, 2>>)}

Faults == {"none", "write", "replace"}

\* What the calls made so far say each key holds: the data of its last
\* save_state that returned True, None after a delete_state that returned
\* True and when there was neither.
NoneSaved == [k \in StateKeys |-> None]
Saved(latest, key, ret, data) ==
    IF ret THEN [latest EXCEPT ![key] = data] ELSE latest

\* req is the last call with what it returned and whether it changed the
\* directory; out counts the calls and keeps what they say each key holds.
call_save_state ==
    /\ op \in {"idle", "state"}
    /\ out.calls < MaxCalls
    /\ \E key \in StateKeys, data \in StateValues, fault \in Faults :
         LET r == save_state(state_dir, key, data, fault)
         IN  /\ state_dir' = r.dir
             /\ req' = [fn |-> "save_state", key |-> key, data |-> data,
                        ret |-> r.ret, value |-> None,
                        changed |-> r.dir # state_dir]
             /\ out' = [calls |-> out.calls + 1,
                        latest |-> Saved(out.latest, key, r.ret, data)]
    /\ op' = "state"
    /\ UNCHANGED <<cache, cfg, trades, bars_by_date, threads, write_lock>>

call_load_state ==
    /\ op \in {"idle", "state"}
    /\ out.calls < MaxCalls
    /\ \E key \in StateKeys :
         req' = [fn |-> "load_state", key |-> key, data |-> None,
                 ret |-> TRUE, value |-> load_state(state_dir, key),
                 changed |-> FALSE]
    /\ out' = [out EXCEPT !.calls = @ + 1]
    /\ op' = "state"
    /\ UNCHANGED <<cache, cfg, trades, bars_by_date, threads, state_dir,
                   write_lock>>

call_delete_state ==
    /\ op \in {"idle", "state"}
    /\ out.calls < MaxCalls
    /\ \E key \in StateKeys :
         LET r == delete_state(state_dir, key)
         IN  /\ state_dir' = r.dir
             /\ req' = [fn |-> "delete_state", key |-> key, data |-> None,
                        ret |-> r.ret, value |-> None,
                        changed |-> r.dir # state_dir]
             /\ out' = [calls |-> out.calls + 1,
                        latest |-> Saved(out.latest, key, r.ret, None)]
    /\ op' = "state"
    /\ UNCHANGED <<cache, cfg, trades, bars_by_date, threads, write_lock>>

InitState ==
    /\ cache = AbsentDir
    /\ cfg = NoCfg
    /\ op = "idle"
    /\ req = NoReq
    /\ out = [calls |-> 0, latest |-> NoneSaved]
    /\ trades = << >>
    /\ bars_by_date = NoMemo
    /\ threads = << >>
    /\ state_dir \in {NoStateDir, [exists |-> TRUE, files |-> << >>]}
    /\ write_lock = 0

NextState == call_save_state \/ call_load_state \/ call_delete_state

SpecState == InitState /\ [][NextState]_vars

---------------------------------------------------------------------------
(* save_state and load_state called from several threads at once           *)
(*                                                                         *)
(* A thread makes one call: [pc, fn, key, data, ret, value].  save_state   *)
(* is cut at its system calls: mkdir, taking _write_lock, opening the      *)
(* temporary file, writing to it (the first character, then the rest),     *)
(* renaming it and releasing the lock; load_state at exists() and at       *)
(* read_text().                                                            *)

same_path(path) == path

\* Line 59: the file save_state writes before it renames it
tmp_of(path) == with_suffix_tmp(path)

IdleCaller ==
    [pc |-> "idle", fn |-> "none", key |-> NoKey, data |-> None,
     ret |-> FALSE, value |-> None]

ThreadKeys == {<<"k">>, <<"a", "_", "B", "1">>, <<"a", "/", "b">>}
ThreadValues == {Number(42), List(<<1, 2>>)}

\* lines 54-58: a refused key returns False, else the directory is made
save_state_enter(t) ==
    /\ threads[t].pc = "idle"
    /\ \E key \in ThreadKeys, data \in ThreadValues :
         IF sanitize_key(key) = NoKey
         THEN /\ threads' = [threads EXCEPT ![t] =
                    [IdleCaller EXCEPT !.pc = "done", !.fn = "save_state",
                                       !.key = key, !.data = data]]
              /\ UNCHANGED state_dir
         ELSE /\ threads' = [threads EXCEPT ![t] =
                    [IdleCaller EXCEPT !.pc = "lock", !.fn = "save_state",
                                       !.key = key, !.data = data]]
              /\ state_dir' = [state_dir EXCEPT !.exists = TRUE]
    /\ UNCHANGED <<cache, cfg, op, req, out, trades, bars_by_date,
                   write_lock>>

\* line 60: with _write_lock, waiting while another thread holds it
save_state_lock(t) ==
    /\ threads[t].pc = "lock"
    /\ write_lock = 0
    /\ write_lock' = t
    /\ threads' = [threads EXCEPT ![t].pc = "open"]
    /\ UNCHANGED <<cache, cfg, op, req, out, trades, bars_by_date,
                   state_dir>>

\* line 62, tmp.write_text: the file is created or cut to nothing, ...
save_state_open(t) ==
    /\ threads[t].pc = "open"
    /\ state_dir' = [state_dir EXCEPT !.files =
          Put(@, tmp_of(state_file(threads[t].key)), << >>)]
    /\ threads' = [threads EXCEPT ![t].pc = "write"]
    /\ UNCHANGED <<cache, cfg, op, req, out, trades, bars_by_date,
                   write_lock>>

\* ... the first character of the text reaches it, ...
save_state_write(t) ==
    /\ threads[t].pc = "write"
    /\ state_dir' = [state_dir EXCEPT !.files =
          Put(@, tmp_of(state_file(threads[t].key)),
              SubSeq(json_dumps(threads[t].data), 1, 1))]
    /\ threads' = [threads EXCEPT ![t].pc = "rest"]
    /\ UNCHANGED <<cache, cfg, op, req, out, trades, bars_by_date,
                   write_lock>>

\* ... and then the rest of it
save_state_write_rest(t) ==
    /\ threads[t].pc = "rest"
    /\ state_dir' = [state_dir EXCEPT !.files =
          Put(@, tmp_of(state_file(threads[t].key)),
              json_dumps(threads[t].data))]
    /\ threads' = [threads EXCEPT ![t].pc = "replace"]
    /\ UNCHANGED <<cache, cfg, op, req, out, trades, bars_by_date,
                   write_lock>>

\* line 63, tmp.replace(path): the rename; OSError if tmp is gone
save_state_replace(t) ==
    /\ threads[t].pc = "replace"
    /\ LET path == state_file(threads[t].key)
           tmp == tmp_of(path)
       IN  IF tmp \in DOMAIN state_dir.files
           THEN /\ state_dir' = [state_dir EXCEPT !.files =
                      Put(Remove(@, tmp), path, state_dir.files[tmp])]
                /\ threads' = [threads EXCEPT ![t].pc = "unlock",
                                              ![t].ret = TRUE]
           ELSE /\ UNCHANGED state_dir
                /\ threads' = [threads EXCEPT ![t].pc = "unlock",
                                              ![t].ret = FALSE]
    /\ UNCHANGED <<cache, cfg, op, req, out, trades, bars_by_date,
                   write_lock>>

\* lines 64-67: the lock is released as the call returns
save_state_return(t) ==
    /\ threads[t].pc = "unlock"
    /\ write_lock' = 0
    /\ threads' = [threads EXCEPT ![t].pc = "done"]
    /\ UNCHANGED <<cache, cfg, op, req, out, trades, bars_by_date,
                   state_dir>>

\* lines 39-45: None for a refused key and for a file that is not there
load_state_enter(t) ==
    /\ threads[t].pc = "idle"
    /\ \E key \in ThreadKeys :
         threads' = [threads EXCEPT ![t] =
            [IdleCaller EXCEPT
               !.pc = IF sanitize_key(key) # NoKey /\ state_dir.exists
                         /\ state_file(key) \in DOMAIN state_dir.files
                      THEN "read" ELSE "done",
               !.fn = "load_state", !.key = key]]
    /\ UNCHANGED <<cache, cfg, op, req, out, trades, bars_by_date,
                   state_dir, write_lock>>

\* lines 46-49: the file is read and parsed; None if it is gone or no JSON
load_state_read(t) ==
    /\ threads[t].pc = "read"
    /\ threads' = [threads EXCEPT ![t].pc = "done",
                                  ![t].value =
                                     load_state(state_dir, threads[t].key)]
    /\ UNCHANGED <<cache, cfg, op, req, out, trades, bars_by_date,
                   state_dir, write_lock>>

InitStateThreads ==
    /\ cache = AbsentDir
    /\ cfg = NoCfg
    /\ op = "idle"
    /\ req = NoReq
    /\ out = NoOut
    /\ trades = << >>
    /\ bars_by_date = NoMemo
    /\ threads = [t \in 1..NThreads |-> IdleCaller]
    /\ state_dir = NoStateDir
    /\ write_lock = 0

NextStateThreads ==
    \E t \in 1..NThreads :
        \/ save_state_enter(t)
        \/ save_state_lock(t)
        \/ save_state_open(t)
        \/ save_state_write(t)
        \/ save_state_write_rest(t)
        \/ save_state_replace(t)
        \/ save_state_return(t)
        \/ load_state_enter(t)
        \/ load_state_read(t)

SpecStateThreads == InitStateThreads /\ [][NextStateThreads]_vars

---------------------------------------------------------------------------
(* GET routing: ChartRequestHandler.do_GET                                 *)
(*                                                                         *)
(* A path is the sequence of its segments after the leading "/": "/" is    *)
(* <<"">>, "/api/trades" is <<"api", "trades">>, "/api/" is <<"api", "">>. *)
(* The query string is not part of the path.  A response is [status,       *)
(* location, body], the body a tagged value [t, v].                        *)

Redirect(target) ==
    [status |-> 302, location |-> target, body |-> [t |-> "none", v |-> << >>]]
JsonList(items) ==
    [status |-> 200, location |-> "", body |-> [t |-> "list", v |-> items]]
JsonObject(pairs) ==
    [status |-> 200, location |-> "", body |-> [t |-> "object", v |-> pairs]]
NotFound ==
    [status |-> 404, location |-> "", body |-> [t |-> "html", v |-> << >>]]
\* The response is the one of the handler h, modelled where h is.
AnsweredBy(h) ==
    [status |-> 0, location |-> "", body |-> [t |-> "handler", v |-> <<h>>]]

\* TradeRecord.to_dict, on the fields the model's trades have
to_dict(tr) == [k \in {"date", "symbol"} |-> tr[k]]

\* A redirect to the trade review page whatever is loaded.
redirect_to_trades(trs) == Redirect("/trades")

\* lines 136-141
redirect(trs) == Redirect(IF trs # << >> THEN "/trades" ELSE "/market")

\* lines 248-253
serve_trades_api(trs) ==
    IF trs # << >>
    THEN JsonList([i \in 1..Len(trs) |-> to_dict(trs[i])])
    ELSE JsonList(<< >>)

\* path.startswith(dir + "/")
startswith(path, dir) ==
    Len(path) > Len(dir) /\ SubSeq(path, 1, Len(dir)) = dir

\* lines 94-128: the handler a path is given to and what is sent
do_GET(path, trs) ==
    IF path \in {<<"">>, <<"index.html">>}
    THEN [handler |-> "_redirect", sent |-> redirect(trs)]
    ELSE IF path = <<"market">>
    THEN [handler |-> "_serve_market", sent |-> AnsweredBy("_serve_market")]
    ELSE IF path = <<"trades">>
    THEN [handler |-> "_serve_trades", sent |-> AnsweredBy("_serve_trades")]
    ELSE IF path = <<"api", "symbols">>
    THEN [handler |-> "get_available_symbols",
          sent |-> AnsweredBy("get_available_symbols")]
    ELSE IF path = <<"api", "bars">>
    THEN [handler |-> "_serve_bars", sent |-> AnsweredBy("_serve_bars")]
    ELSE IF path = <<"api", "quotes", "live">>
    THEN [handler |-> "_serve_live_quotes",
          sent |-> AnsweredBy("_serve_live_quotes")]
    ELSE IF path = <<"api", "quotes">>
    THEN [handler |-> "_serve_quotes", sent |-> AnsweredBy("_serve_quotes")]
    ELSE IF path = <<"api", "trades">>
    THEN [handler |-> "_serve_trades_api", sent |-> serve_trades_api(trs)]
    ELSE IF path = <<"api", "trades", "summary">>
    THEN [handler |-> "_serve_trades_summary",
          sent |-> AnsweredBy("_serve_trades_summary")]
    ELSE IF startswith(path, <<"api", "trades", "bars">>)
    THEN [handler |-> "_serve_trade_bars",
          sent |-> AnsweredBy("_serve_trade_bars")]
    ELSE IF path = <<"api", "state", "all">>
    THEN [handler |-> "_serve_state_all",
          sent |-> AnsweredBy("_serve_state_all")]
    ELSE IF path = <<"api", "state">>
    THEN [handler |-> "_serve_state_single",
          sent |-> AnsweredBy("_serve_state_single")]
    ELSE IF startswith(path, <<"api">>)
    THEN [handler |-> "_send_json", sent |-> JsonObject(<< >>)]
    ELSE [handler |-> "send_error", sent |-> NotFound]

\* The paths requests come with: every route, and paths beside them.
Paths ==
    {<<"">>, <<"index.html">>, <<"market">>, <<"trades">>,
     <<"api", "symbols">>, <<"api", "bars">>, <<"api", "quotes", "live">>,
     <<"api", "quotes">>, <<"api", "trades">>, <<"api", "trades", "summary">>,
     <<"api", "trades", "bars", "2024-01-18">>,
     <<"api", "trades", "bars", "x", "2024-01-19">>,
     <<"api", "trades", "bars">>, <<"api", "state", "all">>,
     <<"api", "state">>, <<"api", "state", "delete">>, <<"api", "unknown">>,
     <<"api", "">>, <<"api">>, <<"api", "trades", "">>, <<"nonexistent">>,
     <<"trades", "">>, <<"market", "x">>, <<"index.html", "">>,
     <<"favicon.ico">>}

\* One GET request on a server with the trades it was started on.
call_do_GET ==
    /\ op = "idle"
    /\ \E path \in Paths :
         /\ req' = [path |-> path]
         /\ out' = do_GET(path, trades)
    /\ op' = "do_GET"
    /\ UNCHANGED <<cache, cfg, trades, bars_by_date, threads,
                   state_dir, write_lock>>

InitRoutes ==
    /\ cache = AbsentDir
    /\ cfg = NoCfg
    /\ op = "idle"
    /\ req = [path |-> << >>]
    /\ out = [handler |-> "", sent |-> AnsweredBy("")]
    /\ trades \in {<< >>, <<Trade(0)>>, <<Trade(1)>>, <<Trade(1), Trade(0)>>,
                    <<Trade(0), Trade(1)>>, <<Trade(0), Trade(0)>>}
    /\ bars_by_date = NoMemo
    /\ threads = << >>
    /\ state_dir = NoStateDir
    /\ write_lock = 0

NextRoutes == call_do_GET

SpecRoutes == InitRoutes /\ [][NextRoutes]_vars

---------------------------------------------------------------------------
(* Notions the claims are stated in                                        *)

Count(s, x) == Cardinality({i \in 1..Len(s) : s[i] = x})
SameBag(s, t) ==
    /\ Len(s) = Len(t)
    /\ \A x \in Range(s) \cup Range(t) : Count(s, x) = Count(t, x)
TimeOfDay(ts) == ts % DAY
StrictlyIncreasing(df) ==
    \A i \in 1..Len(df), j \in 1..Len(df) :
        i < j => df[i].timestamp < df[j].timestamp

\* The Eastern wall-clock rows a segment file or a provider answer stands for.
Eastern(rows, z) ==
    {[r EXCEPT !.timestamp = IF z = "UTC" THEN @ - 5 * HOUR ELSE @] :
        r \in Range(rows)}
EasternSeq(rows, z) ==
    [i \in 1..Len(rows) |->
        [rows[i] EXCEPT !.timestamp = IF z = "UTC" THEN @ - 5 * HOUR ELSE @]]

\* The segment's name declares an interval that overlaps [start, end].
Overlaps(f, start, end) ==
    Len(f.parts) >= 3 /\ f.parts[3] >= start /\ f.parts[2] <= end

\* The date D of the latest bar of a non-empty frame.
LastDate(df) ==
    CHOOSE d \in {DateOf(r.timestamp) : r \in Range(df)} :
        \A r \in Range(df) : DateOf(r.timestamp) <= d

\* The answer load_bars_from_manager went on with.
Kept == IF out.mgr.kind = "raise" THEN out.raw ELSE out.mgr

CalledLoadCache == op = "load_bars_from_cache"
CalledLoadManager == op = "load_bars_from_manager"
CalledFetch == op = "fetch_bars"

---------------------------------------------------------------------------
(* C1 - C3: cache first, the provider for the uncovered tail only           *)

\* C1: when fetch_bars has a non-empty cache frame whose last date D is
\* before the requested end, load_bars_from_manager is called exactly once,
\* for [D + 1, end]; manager.get_bars is called exactly once, every get_bars
\* call is for [D + 1, end] and none for the range requested; unless the
\* load raised, the frame is the cache rows and the provider's rows together
\* (ordered by timestamp), and the cache rows alone when it gave none.
C1_TailOnly ==
    (CalledFetch /\ cfg.manager /\ out.cache_df # << >>
       /\ LastDate(out.cache_df) < req.end)
    => LET D == LastDate(out.cache_df)
       IN  /\ out.loads = <<[start |-> D + 1, end |-> req.end]>>
           /\ Cardinality({i \in 1..Len(out.calls) :
                             out.calls[i].target = "manager"}) = 1
           /\ \A i \in 1..Len(out.calls) :
                 /\ out.calls[i].start = D + 1 /\ out.calls[i].end = req.end
                 /\ out.calls[i].start # req.start
           /\ ~out.raised =>
                 /\ SameBag(out.df, out.cache_df \o out.mgr_df)
                 /\ Kept.kind = "bars" =>
                       out.mgr_df = EasternSeq(Kept.bars, Kept.tz)
                 /\ Kept.kind # "bars" => out.df = out.cache_df

C1_Witness ==
    /\ CalledFetch /\ cfg.manager /\ out.cache_df # << >>
    /\ LastDate(out.cache_df) < req.end
    /\ req.start <= LastDate(out.cache_df)
    /\ out.mgr_df # << >> /\ ~out.raised
    /\ Len(out.df) = Len(out.cache_df) + Len(out.mgr_df)

\* C2: when fetch_bars has a provider and no cache directory is configured
\* or the cache frame is empty, load_bars_from_manager is called once for
\* the whole [start, end], every get_bars call is for [start, end], and
\* unless the load raised the frame is exactly the provider's rows.
C2_WholeRangeWhenNoCache ==
    (CalledFetch /\ cfg.manager /\ (~cfg.cache_dir \/ out.cache_df = << >>))
    => /\ out.loads = <<[start |-> req.start, end |-> req.end]>>
       /\ out.calls # << >>
       /\ \A i \in 1..Len(out.calls) :
             out.calls[i].start = req.start /\ out.calls[i].end = req.end
       /\ ~out.raised =>
             out.df = IF Kept.kind = "bars"
                      THEN EasternSeq(Kept.bars, Kept.tz) ELSE << >>

C2_Witness ==
    /\ CalledFetch /\ cfg.manager /\ cfg.cache_dir /\ cache.exists
    /\ out.cache_df = << >> /\ req.start < req.end
    /\ out.df # << >> /\ out.result # << >>

\* C3: with a non-empty cache frame whose last date is D, no get_bars call
\* of fetch_bars covers a date on or before D, and when D is on or after the
\* requested end there is no provider call at all.
C3_NoRefetchOfCoveredDates ==
    (CalledFetch /\ out.cache_df # << >>)
    => LET D == LastDate(out.cache_df)
       IN  /\ \A i \in 1..Len(out.calls) : out.calls[i].start > D
           /\ D >= req.end => out.calls = << >> /\ out.loads = << >>

\* The cache has a bar on the last requested day only, none on the first.
C3_Witness ==
    /\ CalledFetch /\ cfg.manager /\ out.cache_df # << >>
    /\ LastDate(out.cache_df) = req.end /\ req.start < req.end
    /\ \A r \in Range(out.cache_df) : DateOf(r.timestamp) # req.start
    /\ out.calls = << >> /\ out.result # << >>

---------------------------------------------------------------------------
(* C5, C6: provider failures                                               *)

\* C5: load_bars_from_manager calls manager.get_bars first; if that raises
\* and a raw provider exists it calls providers[0].get_bars once with the
\* same dates, and otherwise makes no second call; when the raw provider
\* raises too, or none exists, it returns an empty frame and does not raise.
C5_TwoTierFallback ==
    CalledLoadManager
    => /\ out.calls # << >>
       /\ out.calls[1] = Call("manager", req.start, req.end)
       /\ (out.mgr.kind = "raise" /\ cfg.has_raw)
            => out.calls = <<Call("manager", req.start, req.end),
                             Call("raw", req.start, req.end)>>
       /\ (out.mgr.kind # "raise" \/ ~cfg.has_raw) => Len(out.calls) = 1
       /\ (out.mgr.kind = "raise" /\ cfg.has_raw /\ out.raw.kind = "bars")
            => out.result = EasternSeq(out.raw.bars, out.raw.tz)
       /\ (out.mgr.kind = "raise" /\ (~cfg.has_raw \/ out.raw.kind = "raise"))
            => out.result = << >> /\ ~out.raised

C5_Witness ==
    /\ CalledLoadManager /\ out.mgr.kind = "raise" /\ cfg.has_raw
    /\ out.raw.kind = "bars" /\ out.result # << >>
    /\ Len(out.calls) = 2

\* C6: whatever the provider does (raise, or answer with a malformed list),
\* fetch_bars returns and does not raise.
C6_FetchNeverRaises == CalledFetch => ~out.raised

---------------------------------------------------------------------------
(* C7 - C10: the cache reader                                              *)

\* C7 as claimed: every bar load_bars_from_cache returns has a time of day
\* t with 04:00 <= t < 20:00.
C7_SessionEndExclusive ==
    CalledLoadCache
    => \A r \in Range(out.result) :
         /\ 4 * HOUR <= TimeOfDay(r.timestamp)
         /\ TimeOfDay(r.timestamp) < 20 * HOUR

\* The rows of the files read that lie in the requested dates, on trading
\* days, with a time of day in [lo, hi).
Candidates(lo, hi) ==
    {r \in UNION {Eastern(f.rows, f.tz) :
                    f \in {g \in cache.files :
                             Overlaps(g, req.start, req.end)}} :
        /\ DateOf(r.timestamp) \in req.start..req.end
        /\ weekday(DateOf(r.timestamp)) \notin {5, 6}
        /\ lo <= TimeOfDay(r.timestamp) /\ TimeOfDay(r.timestamp) < hi}

\* C7 amended: every bar load_bars_from_cache returns has a time of day t
\* with 04:00:00 <= t < 20:01:00, and every such row of the requested
\* dates is returned: a bar stamped 04:00 or 20:00 (any second of that
\* minute) is kept, one stamped 20:01 or later, or before 04:00, is removed.
C7_SessionThroughMinute2000 ==
    CalledLoadCache
    => /\ \A r \in Range(out.result) :
             /\ 4 * HOUR <= TimeOfDay(r.timestamp)
             /\ TimeOfDay(r.timestamp) < 20 * HOUR + MINUTE
       /\ {r.timestamp : r \in Range(out.result)}
            = {r.timestamp : r \in Candidates(4 * HOUR, 20 * HOUR + MINUTE)}

C7_Witness ==
    /\ CalledLoadCache
    /\ \E r \in Range(out.result) : TimeOfDay(r.timestamp) = 20 * HOUR
    /\ \E r \in Candidates(0, DAY) :
          /\ TimeOfDay(r.timestamp) = 20 * HOUR + MINUTE
          /\ r \notin Range(out.result)

\* C8: the frame load_bars_from_cache returns has strictly increasing
\* timestamps (so no timestamp twice), all within
\* [start 00:00:00, end 23:59:59].
C8_SortedUniqueInRange ==
    CalledLoadCache
    => /\ StrictlyIncreasing(out.result)
       /\ \A r \in Range(out.result) :
             /\ r.timestamp >= req.start * DAY
             /\ r.timestamp <= req.end * DAY + (DAY - 1)

\* Two segments read hold the same instant, one of them stamped in UTC.
C8_Witness ==
    /\ CalledLoadCache /\ out.result # << >>
    /\ \E f, g \in cache.files :
          /\ f.parts # g.parts /\ f.tz # g.tz
          /\ f.parts \in Range(out.read) /\ g.parts \in Range(out.read)
          /\ \E r \in Eastern(f.rows, f.tz), q \in Eastern(g.rows, g.tz) :
                r.timestamp = q.timestamp
                /\ r.timestamp \in {x.timestamp : x \in Range(out.result)}

\* C9: load_bars_from_cache reads exactly the segment files whose name has
\* the three parts and declares an interval overlapping [start, end]; every
\* bar it returns is a row of a file it read.
C9_ReadsOverlappingSegmentsOnly ==
    CalledLoadCache
    => /\ \A f \in cache.files :
             f.parts \in Range(out.read)
               <=> Overlaps(f, req.start, req.end)
       /\ Len(out.read) = Cardinality(Range(out.read))
       /\ \A r \in Range(out.result) :
             \E f \in cache.files :
                /\ Overlaps(f, req.start, req.end)
                /\ r \in Eastern(f.rows, f.tz)
       /\ ~out.raised

\* One segment is read, one of a short name and one that does not overlap
\* are not (the latter two may be one file when MaxFiles is 2).
C9_Witness ==
    /\ CalledLoadCache /\ out.result # << >>
    /\ \E f, g \in cache.files :
          /\ f.parts \in Range(out.read)
          /\ g.parts \notin Range(out.read)
          /\ Len(g.parts) >= 3
          /\ \E r \in Range(g.rows) :
                DateOf(r.timestamp) \in req.start..req.end

\* C10: load_bars_from_cache returns an empty frame when the symbol's
\* directory is missing or no segment qualifies, and fetch_bars without a
\* provider returns [] when no cache directory is configured or the cache
\* frame is empty; neither raises.
C10_EmptyWhenNoData ==
    LET NoSegment == \A f \in cache.files : ~Overlaps(f, req.start, req.end)
    IN  /\ (CalledLoadCache /\ (~cache.exists \/ NoSegment))
             => out.result = << >> /\ ~out.raised
        /\ (CalledFetch /\ ~cfg.manager
               /\ (~cfg.cache_dir \/ ~cache.exists \/ NoSegment
                      \/ out.cache_df = << >>))
             => out.result = << >> /\ ~out.raised /\ out.calls = << >>

\* A directory with segments, none for the requested dates, though one of
\* them holds a row of those dates.
C10_Witness ==
    /\ CalledLoadCache /\ cache.exists /\ cache.files # {}
    /\ \A f \in cache.files : ~Overlaps(f, req.start, req.end)
    /\ \E f \in cache.files : \E r \in Range(f.rows) :
          /\ DateOf(r.timestamp) \in req.start..req.end
          /\ Len(f.parts) >= 3
    /\ out.result = << >>

---------------------------------------------------------------------------
(* C4: the memoization map under concurrent requests                       *)

\* Thread t has tested the map for its date and not yet written the entry.
BetweenCheckAndWrite(t) == threads[t].pc \in {"fetching", "fetched"}

\* C4: no two threads are at once between the membership test and the
\* write of the same date's entry of bars_by_date.
C4_CheckThenWriteIsExclusive ==
    bars_by_date.configured
    => \A t, u \in DOMAIN threads :
         (t # u /\ BetweenCheckAndWrite(t) /\ BetweenCheckAndWrite(u))
           => threads[t].date # threads[u].date

---------------------------------------------------------------------------
(* C11: bars of non-trading days                                           *)

\* The rows of a frame dated Monday to Friday, in their order.
OnWeekdays(df) ==
    SelectIdx(df, {i \in 1..Len(df) : weekday(DateOf(df[i].timestamp)) < 5})

\* The provider's rows are all dated within the range requested.
ProviderWithinRange ==
    \A r \in Range(out.mgr_df) :
        DateOf(r.timestamp) \in req.start..req.end

\* C11: no bar of a non-trading day contributes to what fetch_bars returns:
\* every returned bar is dated on a trading day, the result is the encoding
\* of the resampled trading-day rows of the combined series (the cache rows
\* and the provider rows), and a request whose dates are all non-trading
\* days returns [] whatever the cache holds for them (the provider staying
\* within the range it is asked for).
C11_NonTradingDaysDropped ==
    (CalledFetch /\ ~out.raised)
    => /\ \A i \in 1..Len(out.result) :
             weekday(DateOf(out.result[i].time - EPOCH_OF_DAY_0)) < 5
       /\ out.result =
             IF OnWeekdays(out.df) = << >> THEN << >>
             ELSE bars_to_json(aggregate_bars(OnWeekdays(out.df),
                                              req.timeframe))
       /\ ((\A d \in req.start..req.end : weekday(d) >= 5)
             /\ ProviderWithinRange)
           => out.result = << >>

C11_Witness ==
    /\ CalledFetch /\ ~out.raised /\ cfg.cache_dir
    /\ req.start = req.end /\ weekday(req.start) >= 5
    /\ \E f \in cache.files :
          \E r \in Range(f.rows) : DateOf(r.timestamp) = req.start
    /\ out.mgr_df # << >> /\ ProviderWithinRange
    /\ out.result = << >>

---------------------------------------------------------------------------
(* C12 - C15: aggregate_bars                                               *)

CalledAggregate == op = "aggregate_bars"

\* The minutes of one bucket of a timeframe.
BucketMinutes(timeframe) ==
    CASE timeframe = "1min" -> 1
      [] timeframe = "2min" -> 2
      [] timeframe = "5min" -> 5
      [] timeframe = "7min" -> 7
      [] timeframe = "1hour" -> 60
      [] timeframe = "1day" -> 24 * 60

\* Positions of the rows of df stamped within [left, left + width).
RowsWithin(df, left, width) ==
    {i \in 1..Len(df) :
        df[i].timestamp >= left /\ df[i].timestamp < left + width}

\* Row i is before row j: earlier, or of the same time and before it in df.
Before(df, i, j) ==
    \/ df[i].timestamp < df[j].timestamp
    \/ df[i].timestamp = df[j].timestamp /\ i <= j

RECURSIVE VolumeAt(_, _)
\* The volume of the rows of df at the positions I, added up.
VolumeAt(df, I) ==
    IF I = {} THEN 0
    ELSE LET i == CHOOSE x \in I : TRUE
         IN  df[i].volume + VolumeAt(df, I \ {i})

\* C12: aggregate_bars(S, "1min") is S: the same rows in the same order.
C12_OneMinutePassthrough ==
    (CalledAggregate /\ req.timeframe = "1min") => out.result = out.df

C12_Witness ==
    /\ CalledAggregate /\ req.timeframe = "1min"
    /\ Len(out.df) = 3
    /\ out.df[1].timestamp > out.df[2].timestamp
    /\ out.df[2].timestamp = out.df[3].timestamp
    /\ out.result = out.df

\* C13: for a timeframe coarser than one minute each output bar is labelled
\* with the left edge L of a bucket [L, L + width) cut from midnight (of the
\* first bar's day, which is midnight of L's own day when the width divides
\* the day); its open is that of the earliest input bar of the bucket, its
\* close that of the latest, its high the greatest high, its low the least
\* low and its volume the sum of the volumes.  Labels ascend and every
\* input bar is in the bucket of one output bar.
C13_BucketRule ==
    (CalledAggregate /\ req.timeframe # "1min")
    => LET S == out.df
           R == out.result
           w == BucketMinutes(req.timeframe) * 60
           day0 == SetMin({DateOf(S[i].timestamp) : i \in 1..Len(S)})
           G(k) == RowsWithin(S, R[k].timestamp, w)
       IN  /\ \A k \in 1..Len(R) :
                 /\ G(k) # {}
                 /\ (R[k].timestamp - day0 * DAY) % w = 0
                 /\ DAY % w = 0 => (R[k].timestamp % DAY) % w = 0
                 /\ \E e \in G(k) :
                       /\ \A j \in G(k) : Before(S, e, j)
                       /\ R[k].open = S[e].open
                 /\ \E l \in G(k) :
                       /\ \A j \in G(k) : Before(S, j, l)
                       /\ R[k].close = S[l].close
                 /\ \E i \in G(k) : R[k].high = S[i].high
                 /\ \A i \in G(k) : R[k].high >= S[i].high
                 /\ \E i \in G(k) : R[k].low = S[i].low
                 /\ \A i \in G(k) : R[k].low <= S[i].low
                 /\ R[k].volume = VolumeAt(S, G(k))
           /\ \A k \in 1..(Len(R) - 1) : R[k].timestamp < R[k + 1].timestamp
           /\ \A i \in 1..Len(S) : \E k \in 1..Len(R) : i \in G(k)

C13_Witness ==
    /\ CalledAggregate /\ req.timeframe = "5min"
    /\ Len(out.df) = 3 /\ Len(out.result) = 1
    /\ out.df[1].timestamp > out.df[2].timestamp
    /\ out.df[2].timestamp > out.df[3].timestamp
    /\ out.df[2].high > out.df[1].high /\ out.df[2].high > out.df[3].high
    /\ out.result[1].open = out.df[3].open
    /\ out.result[1].close = out.df[1].close
    /\ out.result[1].high = out.df[2].high

\* C14: resampling conserves volume: the volumes of aggregate_bars(S, f)
\* add up to the volumes of S (for every S and f of the model, complete
\* buckets without gaps among them).
C14_VolumeConserved ==
    CalledAggregate
    => VolumeAt(out.result, 1..Len(out.result))
         = VolumeAt(out.df, 1..Len(out.df))

\* Two bars that fill one two-minute bucket.
C14_Witness ==
    /\ CalledAggregate /\ req.timeframe = "2min"
    /\ Len(out.df) = 2 /\ Len(out.result) = 1
    /\ out.df[1].timestamp = At(0, 10, 0, 0)
    /\ out.df[2].timestamp = At(0, 10, 1, 0)
    /\ out.result[1].volume = out.df[1].volume + out.df[2].volume

\* C15: aggregate_bars outputs a bar only for a bucket an input bar falls
\* in: no bar stands for an empty bucket between the first and the last
\* input bar, no output bar has volume 0 or a missing price, and the output
\* has no more bars than the input.
C15_EmptyBucketsDropped ==
    (CalledAggregate /\ req.timeframe # "1min")
    => /\ \A k \in 1..Len(out.result) :
             /\ RowsWithin(out.df, out.result[k].timestamp,
                           BucketMinutes(req.timeframe) * 60) # {}
             /\ out.result[k].volume > 0
             /\ out.result[k].open > 0 /\ out.result[k].close > 0
       /\ Len(out.result) <= Len(out.df)

\* Buckets with no bar lie between the bars: a gap within the day and a
\* night.
C15_Witness ==
    /\ CalledAggregate /\ req.timeframe = "2min"
    /\ Len(out.df) = 3 /\ Len(out.result) = 3
    /\ out.df[1].timestamp = At(0, 10, 0, 0)
    /\ out.df[2].timestamp = At(0, 10, 6, 0)
    /\ out.df[3].timestamp = At(1, 10, 0, 0)

---------------------------------------------------------------------------
(* C19: bars_to_json                                                       *)

\* Days from 1970-01-01 to 2024-01-18: 54 years, 13 of them leap, 17 days.
DaysTo20240118 == 54 * 365 + 13 + 17

\* Seconds from 1970-01-01 00:00:00 to the wall-clock time ts, no zone
\* offset applied.
WallClockAsUTC(ts) ==
    (DaysTo20240118 + DateOf(ts)) * 86400
      + hour(ts) * 3600 + minute(ts) * 60 + (ts % 60)

\* C19: bars_to_json gives one record per bar, in the order of the bars;
\* time is the seconds from 1970-01-01 00:00:00 to the bar's wall-clock
\* timestamp read as UTC, volume the bar's volume.
C19_EncodesWallClockAsUTC ==
    op = "bars_to_json"
    => /\ Len(out.result) = Len(out.df)
       /\ \A i \in 1..Len(out.df) :
             /\ out.result[i].time = WallClockAsUTC(out.df[i].timestamp)
             /\ out.result[i].volume = out.df[i].volume

C19_Witness ==
    /\ op = "bars_to_json" /\ Len(out.df) = 2
    /\ out.df[1].timestamp > out.df[2].timestamp
    /\ out.df[2].timestamp % 60 # 0
    /\ out.result[1].time > out.result[2].time

---------------------------------------------------------------------------
(* C16, C17: fetch_quotes                                                  *)

CalledQuotes == op = "fetch_quotes"

\* The days a frame has bars on: its daily bars.
DailyDates(df) == {DateOf(r.timestamp) : r \in Range(df)}

\* The close of the last bar and the open of the first bar of day d.
DayClose(df, d) ==
    LET on == {i \in 1..Len(df) : DateOf(df[i].timestamp) = d}
    IN  df[CHOOSE l \in on : \A j \in on : Before(df, j, l)].close
DayOpen(df, d) ==
    LET on == {i \in 1..Len(df) : DateOf(df[i].timestamp) = d}
    IN  df[CHOOSE e \in on : \A j \in on : Before(df, e, j)].open

LastDay(df) == SetMax(DailyDates(df))
DayBefore(df) == SetMax(DailyDates(df) \ {LastDay(df)})

\* y is x rounded to a multiple of unit.
Rounded(x, unit, y) ==
    /\ y % unit = 0
    /\ 2 * (y - x) <= unit /\ 2 * (x - y) <= unit

\* C16 (as claimed): a symbol has a quote only if its bars aggregate to at
\* least two daily bars.
C16_QuoteNeedsTwoDailyBars ==
    CalledQuotes
    => \A s \in DOMAIN out.result :
          Cardinality(DailyDates(out.frames[s].df)) >= 2

\* C16 (amended): a symbol has a quote exactly if its frame was loaded and
\* has at least two bars; bars of a single day are enough, and prevClose is
\* then that day's open.
C16_QuoteNeedsTwoBars ==
    CalledQuotes
    => \A s \in Range(req.symbols) :
          LET fr == out.frames[s]
          IN  /\ s \in DOMAIN out.result
                    <=> (~fr.raised /\ ~fr.skipped /\ Len(fr.df) >= 2)
              /\ (s \in DOMAIN out.result
                     /\ Cardinality(DailyDates(fr.df)) = 1)
                  => Rounded(DayOpen(fr.df, LastDay(fr.df)), 1000,
                             out.result[s].prevClose)

C16_Witness ==
    /\ CalledQuotes
    /\ "AAPL" \in DOMAIN out.result
    /\ Len(out.frames["AAPL"].df) = 2
    /\ Cardinality(DailyDates(out.frames["AAPL"].df)) = 1
    /\ out.result["AAPL"].prevClose = 9950000

---------------------------------------------------------------------------
(* Live quotes                                                             *)

CalledLive == op = "fetch_live_quotes"

\* C18: fetch_live_quotes never raises, and a requested symbol is in the
\* result exactly when its lookup did not raise and resolved a price above
\* zero; what it gets is the entry of its own lookup, whatever happened to
\* the other symbols.
C18_NonPositivePriceOmitted ==
    CalledLive =>
        /\ ~out.raised
        /\ DOMAIN out.result \subseteq Range(req.symbols)
        /\ \A s \in Range(req.symbols) :
             /\ s \in DOMAIN out.result <=>
                  ~out.lookups[s].raised /\ out.lookups[s].price > 0
             /\ s \in DOMAIN out.result =>
                  out.result[s] = out.lookups[s].entry

\* The part of C18 the code keeps: a lookup that raised or resolved a
\* price of exactly zero leaves no entry, every other symbol has the entry
\* of its own lookup.
C18_ZeroPriceOmitted ==
    CalledLive =>
        /\ ~out.raised
        /\ DOMAIN out.result \subseteq Range(req.symbols)
        /\ \A s \in Range(req.symbols) :
             /\ (out.lookups[s].raised \/ out.lookups[s].price = 0)
                  => s \notin DOMAIN out.result
             /\ s \in DOMAIN out.result =>
                  out.result[s] = out.lookups[s].entry

\* A request for two symbols where the first resolved a negative price and
\* the second a good quote.
C18_NegativePriceKept ==
    /\ CalledLive
    /\ Len(req.symbols) = 2
    /\ out.lookups["AAPL"].price < 0
    /\ "AAPL" \in DOMAIN out.result
    /\ "MSFT" \in DOMAIN out.result

---------------------------------------------------------------------------
(* Batch fetch                                                             *)

CalledBatch == op = "fetch_bars_batch"

\* What fetch_bars does for symbol s of the request when called alone.
Alone(s) ==
    fetch_bars(req.world[s].dir, cfg, req.start, req.end, req.timeframe,
               req.world[s].mgr, req.world[s].raw)

\* Symbol s of the request has no data: no cache directory and a provider
\* that is absent, fails or returns None.
NoData(s) ==
    /\ ~req.world[s].dir.exists
    /\ req.world[s].mgr.kind \in {"unasked", "raise", "none"}

\* C20: fetch_bars_batch returns a map with exactly one key per requested
\* symbol, each value what fetch_bars returns for that symbol alone; an
\* empty symbol list gives an empty map, a symbol with no data maps to an
\* empty list, and the value of a symbol is the one the batch gives it
\* when it is requested on its own, whether or not another symbol failed.
C20_BatchIsPerSymbol ==
    CalledBatch =>
        /\ ~out.raised
        /\ DOMAIN out.result = Range(req.symbols)
        /\ req.symbols = << >> => out.result = << >>
        /\ \A s \in Range(req.symbols) :
             /\ ~Alone(s).raised => out.result[s] = Alone(s).result
             /\ NoData(s) => out.result[s] = << >>
             /\ out.result[s] =
                  fetch_bars_batch(<<s>>, req.start, req.end, req.timeframe,
                                   cfg, req.world)[s]

\* Two symbols: the fetch of MSFT fails, AAPL has bars and keeps them.
C20_Witness ==
    /\ CalledBatch
    /\ req.symbols = <<"AAPL", "MSFT">>
    /\ Alone("MSFT").raised
    /\ out.result["MSFT"] = << >>
    /\ ~Alone("AAPL").raised
    /\ out.result["AAPL"] # << >>

---------------------------------------------------------------------------
(* Repeated fetches                                                        *)

CalledAgain == op = "fetch_bars_again"

---------------------------------------------------------------------------
(* Order of the returned bars                                              *)

\* The time values of a bar list grow strictly from each bar to the next.
TimesIncrease(bars) ==
    \A i \in 1..Len(bars) : \A j \in 1..Len(bars) :
        i < j => bars[i].time < bars[j].time

\* C22: the bar list fetch_bars returns has strictly increasing, pairwise
\* distinct time values, from the cache only, from the provider only in
\* whatever order it answers, and from the cache and the provider's tail.
C22_TimesStrictlyIncreasing ==
    (CalledFetch /\ ~out.raised) => TimesIncrease(out.result)

\* The part of C22 the code keeps: what comes from the cache alone, and what
\* was resampled, grows strictly.
C22_SortedWhenCachedOrResampled ==
    (CalledFetch /\ ~out.raised /\ (out.mgr_df = << >> \/ req.timeframe # "1min"))
        => TimesIncrease(out.result)

\* One-minute bars from the provider alone come back in the provider's
\* order, here a later bar before an earlier one.
C22_ProviderOrderKept ==
    /\ CalledFetch /\ ~out.raised
    /\ req.timeframe = "1min"
    /\ out.cache_df = << >>
    /\ Len(out.result) = 2
    /\ out.result[1].time > out.result[2].time

\* A provider bar with the timestamp of a cache bar comes back next to it.
C22_DuplicateKept ==
    /\ CalledFetch /\ ~out.raised
    /\ out.cache_df # << >> /\ out.mgr_df # << >>
    /\ \E i \in 1..Len(out.result) : \E j \in 1..Len(out.result) :
          i # j /\ out.result[i].time = out.result[j].time

---------------------------------------------------------------------------
(* UI state store                                                          *)

CalledState == op = "state"

C24_BadKeyRefused ==
    (CalledState /\ ~word_only(req.key)) =>
        /\ ~req.changed
        /\ req.fn = "load_state" => req.value = None
        /\ req.fn # "load_state" => ~req.ret

\* The part of C24 the code keeps: the keys the pattern does not match.
C24_UnmatchedKeyRefused ==
    (CalledState /\ ~valid_key_match(req.key)) =>
        /\ ~req.changed
        /\ req.fn = "load_state" => req.value = None
        /\ req.fn # "load_state" => ~req.ret

\* A key of a letter and a newline was saved and is loaded back.
C24_NewlineKeyStored ==
    /\ CalledState
    /\ req.fn = "load_state" /\ req.key = <<"k", LF>>
    /\ req.value = Number(42)
    /\ out.latest[<<"k", LF>>] = Number(42)

---------------------------------------------------------------------------
(* UI state store under concurrent calls                                   *)

\* The data the save_state calls of key k have put in place so far.
Written(k) ==
    {threads[t].data : t \in {u \in 1..NThreads :
        /\ threads[u].fn = "save_state" /\ threads[u].key = k
        /\ threads[u].pc \in {"unlock", "done"} /\ threads[u].ret}}

Writers(k) ==
    {t \in 1..NThreads : /\ threads[t].fn = "save_state"
                         /\ threads[t].key = k
                         /\ sanitize_key(k) # NoKey}

AllDone == \A t \in 1..NThreads : threads[t].pc = "done"

\* C25: under any interleaving of save_state and load_state calls from
\* several threads, the lock is held only by a thread inside its write, a
\* load_state that returned gave None or one complete value some save_state
\* wrote for that key, every save_state of an accepted key returned True,
\* and once all calls have finished no '<key>.tmp' file remains and each
\* key with a writer holds the value of one of its writers.
C25_ConcurrentSavesAreAtomic ==
    /\ \A t \in 1..NThreads :
         /\ write_lock = t <=>
              threads[t].pc \in {"open", "write", "rest", "replace", "unlock"}
         /\ (threads[t].fn = "load_state" /\ threads[t].pc = "done") =>
              threads[t].value \in {None} \cup Written(threads[t].key)
         /\ (threads[t].fn = "save_state" /\ threads[t].pc = "done") =>
              threads[t].ret = (sanitize_key(threads[t].key) # NoKey)
    /\ AllDone =>
         /\ \A n \in DOMAIN state_dir.files : n.suffix # "tmp"
         /\ \A k \in ThreadKeys :
              Writers(k) # {} =>
                  load_state(state_dir, k) \in
                      {threads[t].data : t \in Writers(k)}

\* Two threads saved different values under one key; both returned True
\* and the key holds the value of the one that renamed last.
C25_Witness ==
    /\ AllDone
    /\ threads[1].fn = "save_state" /\ threads[2].fn = "save_state"
    /\ threads[1].key = <<"k">> /\ threads[2].key = <<"k">>
    /\ threads[1].data = Number(42) /\ threads[2].data = List(<<1, 2>>)
    /\ threads[1].ret /\ threads[2].ret
    /\ load_state(state_dir, <<"k">>) = Number(42)

---------------------------------------------------------------------------
(* C26: the per-date memoization map of GET /api/trades/bars/<date>        *)

\* The date d is found in the map m (handlers.py 264).
InMemo(m, d) == m.configured /\ m.entries # << >> /\ d \in DOMAIN m.entries

\* The thread t leaves line 264 in this step.
Looked(t) ==
    /\ threads[t].pc = "idle"
    /\ threads'[t].pc # "idle"
    /\ threads'[t].path = "/api/trades/bars/"

\* No step removes a date from the map.
EntriesKept ==
    DOMAIN bars_by_date.entries \subseteq DOMAIN bars_by_date'.entries

\* A request for a date found in the map is answered with the stored list
\* and never reaches fetch_bars.
HitAnswered(t) ==
    (Looked(t) /\ InMemo(bars_by_date, threads'[t].date)) =>
        /\ threads'[t].pc = "done"
        /\ threads'[t].sent = Json(bars_by_date.entries[threads'[t].date])
        /\ bars_by_date' = bars_by_date

\* A request for a date not found goes on to fetch_bars.
MissFetched(t) ==
    (Looked(t) /\ ~InMemo(bars_by_date, threads'[t].date)) =>
        threads'[t].pc = "fetching"

\* The fetch_bars call of a request ends with a list.
FetchReturned(t) ==
    (threads[t].pc = "fetching" /\ threads'[t].pc # "fetching") =>
        threads'[t].pc = "fetched"

\* The list fetched is stored under the date and sent.
ResultStored(t) ==
    (threads[t].pc = "fetched" /\ threads'[t].pc # "fetched") =>
        /\ InMemo(bars_by_date', threads[t].date)
        /\ bars_by_date'.entries[threads[t].date] = threads[t].bars
        /\ threads'[t].sent = Json(threads[t].bars)

\* C26 as stated: entries are never removed, a date present is answered
\* with the stored list without a fetch, and a date absent is fetched and
\* its result stored under that date.
C26_AbsentDateFetchedAndStored ==
    [][/\ EntriesKept
       /\ \A t \in 1..NThreads :
            /\ HitAnswered(t)
            /\ MissFetched(t)
            /\ FetchReturned(t)
            /\ ResultStored(t)]_vars

\* A request for a date not found goes on to fetch_bars when a symbol is
\* found for it, and is answered [] with the map untouched when none is.
MissFetchedWithSymbol(t) ==
    (Looked(t) /\ ~InMemo(bars_by_date, threads'[t].date)) =>
        IF symbol_for(threads'[t].date) # ""
        THEN threads'[t].pc = "fetching"
        ELSE /\ threads'[t].pc = "done"
             /\ threads'[t].sent = Json(<< >>)
             /\ bars_by_date' = bars_by_date

\* A fetch_bars call that raises leaves the map untouched and sends nothing.
FetchReturnedOrRaised(t) ==
    (threads[t].pc = "fetching" /\ threads'[t].pc # "fetching") =>
        /\ threads'[t].pc \in {"fetched", "failed"}
        /\ threads'[t].sent = NoResponse
        /\ bars_by_date' = bars_by_date

\* The list fetched is sent, and stored under the date when the server has
\* a map.
ResultStoredInMap(t) ==
    (threads[t].pc = "fetched" /\ threads'[t].pc # "fetched") =>
        /\ threads'[t].sent = Json(threads[t].bars)
        /\ IF bars_by_date.configured
           THEN /\ InMemo(bars_by_date', threads[t].date)
                /\ bars_by_date'.entries[threads[t].date] = threads[t].bars
           ELSE bars_by_date' = bars_by_date

\* C26 (amended): entries are never removed and a date present is answered
\* with the stored list, the empty one included, without a fetch; a date
\* absent is fetched only when a symbol is found for it among the loaded
\* trades ([] is sent and nothing stored otherwise), and its result is stored
\* under that date when fetch_bars returns and the server has a map.
C26_MemoizationMap ==
    [][/\ EntriesKept
       /\ \A t \in 1..NThreads :
            /\ HitAnswered(t)
            /\ MissFetchedWithSymbol(t)
            /\ FetchReturnedOrRaised(t)
            /\ ResultStoredInMap(t)]_vars

\* One request was answered with the stored empty list of a date and
\* another fetched an absent date, whose bars are now stored beside it.
C26_Witness ==
    \E t, u \in 1..NThreads :
        /\ threads[t].pc = "done" /\ threads[t].date = 0
        /\ InMemo(bars_by_date, 0) /\ bars_by_date.entries[0] = << >>
        /\ threads[t].sent = Json(<< >>)
        /\ threads[u].pc = "done" /\ threads[u].date = 1
        /\ InMemo(bars_by_date, 1) /\ bars_by_date.entries[1] # << >>
        /\ threads[u].sent = Json(bars_by_date.entries[1])

---------------------------------------------------------------------------
(* C27: a bar-serving request whose fetch fails is still answered          *)

\* C27: a request in which fetch_bars raised has been sent an empty JSON
\* list, on /api/bars and on /api/trades/bars/<date> alike, and a request
\* to /api/bars without symbol, start or end has been sent 400 with an
\* error object.
C27_FailedFetchAnswered ==
    \A t \in 1..NThreads :
        /\ threads[t].raised => threads[t].sent = Json(<< >>)
        /\ threads[t].pc \in {"done", "failed"} =>
              threads[t].sent # NoResponse
        /\ ( /\ threads[t].path = "/api/bars"
             /\ threads[t].pc = "done"
             /\ threads[t].query # BarsParams ) =>
              threads[t].sent = BadRequest

\* The part of C27 about GET /api/bars alone.
C27_ServeBarsAnswered ==
    \A t \in 1..NThreads :
        threads[t].path = "/api/bars" =>
            /\ threads[t].pc = "done"
            /\ threads[t].sent # NoResponse
            /\ threads[t].raised => threads[t].sent = Json(<< >>)
            /\ threads[t].query # BarsParams => threads[t].sent = BadRequest
            /\ (threads[t].query = BarsParams /\ ~threads[t].raised) =>
                  threads[t].sent = Json(threads[t].bars)

\* fetch_bars raised in a request to /api/bars, which was answered [].
C27_ServeBarsCaught ==
    \E t \in 1..NThreads :
        /\ threads[t].path = "/api/bars" /\ threads[t].raised
        /\ threads[t].sent = Json(<< >>)

\* fetch_bars raised in a request to /api/trades/bars/<date>, whose handler
\* ended without a response.
C27_TradeBarsUnanswered ==
    \E t \in 1..NThreads :
        /\ threads[t].path = "/api/trades/bars/" /\ threads[t].pc = "failed"
        /\ threads[t].raised /\ threads[t].sent = NoResponse

---------------------------------------------------------------------------
(* C28: GET routing                                                        *)

\* The paths do_GET names, and the directory whose every path it takes.
FixedPaths ==
    {<<"">>, <<"index.html">>, <<"market">>, <<"trades">>,
     <<"api", "symbols">>, <<"api", "bars">>, <<"api", "quotes", "live">>,
     <<"api", "quotes">>, <<"api", "trades">>, <<"api", "trades", "summary">>,
     <<"api", "state", "all">>, <<"api", "state">>}
KnownPath(path) ==
    \/ path \in FixedPaths
    \/ (Len(path) >= 4 /\ path[1] = "api" /\ path[2] = "trades"
                       /\ path[3] = "bars")
UnderApi(path) == Len(path) >= 2 /\ path[1] = "api"

CalledGet == op = "do_GET"

\* C28: every GET path is given to exactly one handler; "/" is answered 302
\* to /trades when trades are loaded and to /market otherwise; an unknown
\* path under /api/ is answered 200 with {}; any other unknown path is
\* answered 404; /api/trades is answered with the loaded trades in their
\* order, or [] when none are loaded.
C28_RoutingTotalAndFixed ==
    CalledGet =>
        /\ out.handler # ""
        /\ KnownPath(req.path) <=> out.handler \notin {"_send_json", "send_error"}
        /\ req.path = <<"">> =>
              /\ out.sent.status = 302
              /\ out.sent.location =
                    IF Len(trades) > 0 THEN "/trades" ELSE "/market"
        /\ (~KnownPath(req.path) /\ UnderApi(req.path)) =>
              out.sent = JsonObject(<< >>)
        /\ (~KnownPath(req.path) /\ ~UnderApi(req.path)) =>
              out.sent.status = 404
        /\ req.path = <<"api", "trades">> =>
              /\ out.sent.status = 200
              /\ out.sent.body.t = "list"
              /\ Len(out.sent.body.v) = Len(trades)
              /\ \A i \in 1..Len(trades) :
                    /\ out.sent.body.v[i].date = trades[i].date
                    /\ out.sent.body.v[i].symbol = trades[i].symbol

\* "/" was asked for on a server with no trades and redirected to /market.
C28_Witness ==
    /\ CalledGet /\ req.path = <<"">> /\ trades = << >>
    /\ out.sent = Redirect("/market")

\* /api/trades was answered with two trades of different dates in order.
C28_TradesInOrder ==
    /\ CalledGet /\ req.path = <<"api", "trades">>
    /\ Len(trades) = 2 /\ trades[1].date > trades[2].date
    /\ out.sent = JsonList(trades)

\* An unknown path under /api/ was answered {} and one outside it 404.
C28_UnknownApiPath ==
    /\ CalledGet /\ req.path = <<"api", "unknown">>
    /\ out.sent = JsonObject(<< >>)

---------------------------------------------------------------------------
(* C29: when load_bars_from_manager goes to the raw provider               *)

CalledManager == op = "load_bars_from_manager"
CallsTo(target) == {i \in 1..Len(out.calls) : out.calls[i].target = target}

\* C29: the raw provider is called only after manager.get_bars raised; when
\* manager.get_bars returns nothing (None or an empty list) the raw provider
\* is not called and the result is an empty frame; neither source is called
\* more than once in one load.
C29_RawOnlyAfterRaise ==
    CalledManager =>
        /\ CallsTo("raw") # {} =>
              /\ out.mgr.kind = "raise"
              /\ \E i \in CallsTo("manager") : \A j \in CallsTo("raw") : i < j
        /\ ( \/ out.mgr.kind = "none"
             \/ (out.mgr.kind = "bars" /\ out.mgr.bars = << >>) ) =>
              /\ CallsTo("raw") = {}
              /\ ~out.raised
              /\ out.result = << >>
        /\ Cardinality(CallsTo("manager")) = 1
        /\ Cardinality(CallsTo("raw")) <= 1

\* The manager raised, the raw provider was called once and its bars are
\* the result.
C29_Witness ==
    /\ CalledManager /\ out.mgr.kind = "raise"
    /\ Cardinality(CallsTo("raw")) = 1
    /\ out.result # << >>

\* The manager returned an empty list on a manager that has a raw provider,
\* which was left alone.
C29_EmptyAnswerNoFallback ==
    /\ CalledManager /\ cfg.has_raw
    /\ out.mgr.kind = "bars" /\ out.mgr.bars = << >>
    /\ CallsTo("raw") = {} /\ out.result = << >>

---------------------------------------------------------------------------
(* C30: the cache comes first in fetch_quotes                              *)

\* The cache has nothing of the symbol s.
AbsentFromCache(s) == ~req.world[s].dir.exists

\* C30: with a cache directory passed, get_bars is called for no symbol,
\* and a symbol the cache has nothing of gets no quote; the provider is
\* asked only when no cache directory is passed; every quote carries source
\* "cache"; the keys of the result are among the symbols asked for; a symbol
\* whose load raised gets no quote and every other symbol gets the quote of
\* its own frame.
C30_CacheTakesPrecedence ==
    CalledQuotes =>
        /\ DOMAIN out.result \subseteq Range(req.symbols)
        /\ \A s \in DOMAIN out.result : out.result[s].source = "cache"
        /\ \A s \in Range(req.symbols) :
              LET fr == out.frames[s]
              IN  /\ cfg.cache_dir => fr.calls = << >>
                  /\ (cfg.cache_dir /\ AbsentFromCache(s)) =>
                        s \notin DOMAIN out.result
                  /\ fr.calls # << >> => (~cfg.cache_dir /\ cfg.manager)
                  /\ (~cfg.cache_dir /\ cfg.manager) => fr.calls # << >>
                  /\ fr.raised => s \notin DOMAIN out.result
                  /\ (~fr.raised /\ ~fr.skipped /\ quote_of(fr.df) # NoQuote)
                        => (s \in DOMAIN out.result
                            /\ out.result[s] = quote_of(fr.df))

\* A cache directory and a provider were passed, the provider had bars of a
\* symbol the cache has nothing of, and the symbol was left out unasked.
C30_Witness ==
    /\ CalledQuotes /\ cfg.cache_dir /\ cfg.manager
    /\ \E s \in Range(req.symbols) :
          /\ AbsentFromCache(s)
          /\ req.world[s].mgr.kind = "bars" /\ req.world[s].mgr.bars # << >>
          /\ out.frames[s].calls = << >>
          /\ s \notin DOMAIN out.result

\* The load of one symbol raised and the other symbol has its quote.
C30_OneSymbolRaised ==
    /\ CalledQuotes
    /\ \E s \in Range(req.symbols), u \in DOMAIN out.result :
          out.frames[s].raised /\ u # s

\* A quote that came from the provider carries source "cache".
C30_ProviderQuoteTaggedCache ==
    /\ CalledQuotes
    /\ \E s \in DOMAIN out.result :
          out.frames[s].calls # << >> /\ out.result[s].source = "cache"

=============================================================================
